---- MODULE Spec2Model ----
(***************************************************************************)
(* Verification model of the flv.js transmuxing core:                      *)
(*   - IOController   (src/src/io/loader.js, second half of the file)      *)
(*   - FLVDemuxer     (src/src/demux/flv-demuxer.js)                       *)
(*   - MP4Remuxer     (src/src/remux/mp4-remuxer.js)                       *)
(*   - MediaInfo      (src/unnamed/part_000)                               *)
(* Each object is one record-valued variable whose fields carry the names  *)
(* of the object's fields (without the leading underscore).  Handlers are  *)
(* operators from a "world" record to a world record, so that a handler's  *)
(* nested calls and callbacks are part of the same atomic action.          *)
(***************************************************************************)
EXTENDS Integers, Sequences, FiniteSets, TLC

VARIABLES ioctl, loader, iohist, ioEvents,
          remuxer, audioTrack, videoTrack, demuxer, muxhist, muxEvents,
          probed, idrSampleList, idrhist,
          player, browser, playerhist

iovars == <<ioctl, loader, iohist, ioEvents>>

muxvars == <<remuxer, audioTrack, videoTrack, demuxer, muxhist, muxEvents>>

probevars == <<probed>>

idrvars == <<idrSampleList, idrhist>>

playervars == <<player, browser, playerhist>>

vars == <<ioctl, loader, iohist, ioEvents,
          remuxer, audioTrack, videoTrack, demuxer, muxhist, muxEvents,
          probed, idrSampleList, idrhist,
          player, browser, playerhist>>

(***************************************************************************)
(* Bounds of the model                                                     *)
(***************************************************************************)
MaxArrivals == 2
MaxControlOps == 1
MaxErrors == 2
MaxCalls == 3
MaxChunks == 2
MaxTagsPerChunk == 2

(***************************************************************************)
(* Byte buffers.  A buffer is a sequence of runs [off, len]: len bytes     *)
(* that are the source bytes off, off+1, ...; off = -1 marks bytes that    *)
(* were never written.  Adjacent runs that continue each other are merged, *)
(* so a buffer holding the source bytes a..b in order is the single run    *)
(* <<[off |-> a, len |-> b-a+1]>>.                                         *)
(***************************************************************************)
RECURSIVE RunsLen(_)
RunsLen(r) ==
    IF r = <<>> THEN 0 ELSE r[1].len + RunsLen(Tail(r))

RunsAdd(r, run) ==
    IF run.len <= 0 THEN r
    ELSE IF r = <<>> THEN <<run>>
    ELSE LET last == r[Len(r)]
         IN IF (last.off = -1 /\ run.off = -1)
               \/ (last.off >= 0 /\ run.off >= 0 /\ run.off = last.off + last.len)
            THEN [r EXCEPT ![Len(r)].len = last.len + run.len]
            ELSE Append(r, run)

RECURSIVE RunsCat(_, _)
RunsCat(a, b) ==
    IF b = <<>> THEN a ELSE RunsCat(RunsAdd(a, b[1]), Tail(b))

RECURSIVE RunsTake(_, _)
RunsTake(r, k) ==
    IF k <= 0 \/ r = <<>> THEN <<>>
    ELSE IF r[1].len <= k THEN <<r[1]>> \o RunsTake(Tail(r), k - r[1].len)
    ELSE <<[off |-> r[1].off, len |-> k]>>

RECURSIVE RunsDrop(_, _)
RunsDrop(r, k) ==
    IF r = <<>> THEN <<>>
    ELSE IF k <= 0 THEN r
    ELSE IF r[1].len <= k THEN RunsDrop(Tail(r), k - r[1].len)
    ELSE <<[off |-> IF r[1].off = -1 THEN -1 ELSE r[1].off + k,
            len |-> r[1].len - k]>> \o Tail(r)

\* ArrayBuffer.slice(0, n): the first n bytes of the buffer
Slice(buf, n) ==
    LET t == RunsTake(buf, n)
    IN RunsAdd(t, [off |-> -1, len |-> n - RunsLen(t)])

\* Uint8Array.set(data, at): overwrite the bytes at..at+len(data)-1
BufSet(buf, data, at) ==
    RunsCat(RunsCat(Slice(buf, at), data), RunsDrop(buf, at + RunsLen(data)))

\* null / undefined and a present value
Null == <<>>
Some(v) == <<v>>

(***************************************************************************)
(* Program constants of the IOController                                   *)
(***************************************************************************)
MiB == 1024 * 1024
DefaultStashInitialSize == 1024 * 384
InitialBufferSize == 1024 * 1024 * 3
MaxStashSizeKB == 8192
speedNormalizeList == <<64, 128, 256, 384, 512, 768, 1024, 1536, 2048, 3072, 4096>>

EARLY_EOF == "EarlyEof"
UNRECOVERABLE_EARLY_EOF == "UnrecoverableEarlyEof"
EXCEPTION == "Exception"
HTTP_STATUS_CODE_INVALID == "HttpStatusCodeInvalid"
CONNECTING_TIMEOUT == "ConnectingTimeout"

\* LoaderStatus
kIdle == 0
kConnecting == 1
kBuffering == 2
kError == 3
kComplete == 4

(***************************************************************************)
(* Inputs of the model                                                     *)
(***************************************************************************)
\* length in bytes of the resource the loader reads
FileLen == 4000000 + 300000 + 1000
\* sizes of the chunks the loader hands over
ChunkSizes == {300000, 4000000}
\* speed sampler readings (KB/s); 0 = no sample for the last second yet
SpeedChoices == {0, 100}
\* absolute offsets given to open(from) and seek(bytes)
SeekTargets == {0, 1000}
\* errors a loader reports
LoaderErrorTypes == {EARLY_EOF, EXCEPTION, HTTP_STATUS_CODE_INVALID, CONNECTING_TIMEOUT}
\* what the consumer callback returns for a buffer of len bytes
ConsumeModes == {"none", "half", "all"}

Consumed(mode, len) ==
    CASE mode = "none" -> 0
      [] mode = "half" -> (len + 1) \div 2
      [] OTHER -> len

\* data sources: a file of known size, a file of unknown size, a live stream
IOConfigs == { [filesize |-> FileLen, isLive |-> FALSE],
               [filesize |-> 0, isLive |-> FALSE],
               [filesize |-> 0, isLive |-> TRUE] }

NullRange == [from |-> -2, to |-> -2]

(***************************************************************************)
(* IOController: construction                                              *)
(***************************************************************************)
\* IOController.constructor for a data source with the given filesize
\* (0 = not given) and config {enableStashBuffer, isLive, stashInitialSize};
\* a stashInitialSize that is undefined (Null) or not positive leaves the
\* default
IOControllerWith(filesize, enableStashBuffer, isLive, stashInitialSize) ==
    LET initial == IF stashInitialSize /= Null /\ stashInitialSize[1] > 0
                   THEN stashInitialSize[1] ELSE DefaultStashInitialSize
    IN [ stashInitialSize |-> initial,
         stashUsed |-> 0,
         stashSize |-> initial,
         bufferSize |-> InitialBufferSize,
         stashBuffer |-> <<>>,
         stashByteStart |-> 0,
         enableStash |-> enableStashBuffer,
         refTotalLength |-> filesize,
         totalLength |-> filesize,
         fullRequestFlag |-> FALSE,
         currentRange |-> NullRange,
         speedNormalized |-> 0,
         isEarlyEofReconnecting |-> FALSE,
         paused |-> FALSE,
         resumeFrom |-> 0,
         isLive |-> isLive ]

\* IOController.constructor with a config that gives no stashInitialSize
IOControllerNew(filesize, enableStashBuffer, isLive) ==
    IOControllerWith(filesize, enableStashBuffer, isLive, Null)

\* the loader object the controller owns, as far as its contract shows:
\* status, the start of the range it was opened with and the offset of the
\* next byte it will hand over
LoaderNew == [status |-> kIdle, from |-> 0, pos |-> 0]

\* BaseLoader.isWorking
LoaderIsWorking(l) == l.status = kConnecting \/ l.status = kBuffering

\* loader.open(dataSource, range)
LoaderOpen(l, from) == [status |-> kConnecting, from |-> from, pos |-> from]

\* loader.abort()
LoaderAbort(l) == [l EXCEPT !.status = kComplete]

\* history kept for the properties: bytes received from the loader and
\* bytes absorbed by the consumer since the last open/seek/resume, counters
\* of the handlers that ran, the handler that ran last, and for an arrival
\* whose speed reading is recorded the reading and the normalized speed
\* before it
IOHistNew ==
    [ received |-> <<>>, absorbed |-> <<>>,
      arrivals |-> 0, controlOps |-> 0, errors |-> 0,
      reconnects |-> 0, recovered |-> 0, failedReconnects |-> 0,
      lastOp |-> "new", lastErrorType |-> "", wasReconnecting |-> FALSE,
      preStashUsed |-> 0, prePos |-> 0,
      preStashByteStart |-> 0, preRange |-> [from |-> 0, to |-> -1], preNext |-> 0,
      KBps |-> 0, preSpeedNormalized |-> 0 ]

World(c, l, h) == [c |-> c, l |-> l, h |-> h, e |-> <<>>, ret |-> 0]

(***************************************************************************)
(* IOController: helpers                                                   *)
(***************************************************************************)
\* IOController.isWorking
IsWorking(w) == LoaderIsWorking(w.l) /\ ~w.c.paused

\* IOController._dispatchChunks: records the range end, hands the buffer to
\* the consumer (onDataArrival) and returns what the consumer absorbed
DispatchChunks(w, chunks, byteStart, mode) ==
    LET n == RunsLen(chunks)
        consumed == Consumed(mode, n)
        expected == RunsTake(RunsDrop(w.h.received, RunsLen(w.h.absorbed)), n)
    IN [w EXCEPT !.c.currentRange.to = byteStart + n - 1,
                 !.h.absorbed = RunsCat(@, RunsTake(chunks, consumed)),
                 !.e = Append(@, [ev |-> "dispatch", byteStart |-> byteStart,
                                  data |-> chunks, consumed |-> consumed,
                                  aligned |-> (chunks = expected)]),
                 !.ret = consumed]

RECURSIVE DoubleUntil(_, _)
DoubleUntil(size, expectedBytes) ==
    IF size + MiB < expectedBytes THEN DoubleUntil(size * 2, expectedBytes) ELSE size

\* IOController._expandBuffer
ExpandBuffer(c, expectedBytes) ==
    LET bufferNewSize == DoubleUntil(c.stashSize, expectedBytes) + MiB
    IN IF bufferNewSize = c.bufferSize THEN c
       ELSE [c EXCEPT !.stashBuffer = IF c.stashUsed > 0 THEN Slice(@, c.stashUsed) ELSE <<>>,
                      !.bufferSize = bufferNewSize]

\* IOController._normalizeSpeed: the binary search loop
RECURSIVE NormalizeSearch(_, _, _)
NormalizeSearch(input, lbound, ubound) ==
    LET list == speedNormalizeList
        last == Len(list) - 1
        mid == lbound + ((ubound - lbound) \div 2)
    IN IF lbound > ubound THEN 0
       ELSE IF mid = last \/ (input >= list[mid + 1] /\ input < list[mid + 2])
            THEN list[mid + 1]
       ELSE IF list[mid + 1] < input THEN NormalizeSearch(input, mid + 1, ubound)
       ELSE NormalizeSearch(input, lbound, mid - 1)

\* IOController._normalizeSpeed
NormalizeSpeed(input) ==
    IF input < speedNormalizeList[1] THEN speedNormalizeList[1]
    ELSE NormalizeSearch(input, 0, Len(speedNormalizeList) - 1)

\* variant of StashSizeKB that keeps the normalized value up to and
\* including 512
StashSizeKBUpTo512(isLive, normalized) ==
    LET kb == IF isLive THEN normalized
              ELSE IF normalized <= 512 THEN normalized
              ELSE IF normalized <= 1024 THEN (normalized * 3) \div 2
              ELSE normalized * 2
    IN IF kb > MaxStashSizeKB THEN MaxStashSizeKB ELSE kb

\* IOController._adjustStashSize: the size in KB chosen for a speed
StashSizeKB(isLive, normalized) ==
    LET kb == IF isLive THEN normalized
              ELSE IF normalized < 512 THEN normalized
              ELSE IF normalized >= 512 /\ normalized <= 1024 THEN (normalized * 3) \div 2
              ELSE normalized * 2
    IN IF kb > MaxStashSizeKB THEN MaxStashSizeKB ELSE kb

\* IOController._adjustStashSize
AdjustStashSize(c, normalized) ==
    LET stashSizeKB == StashSizeKB(c.isLive, normalized)
        bufferSize == stashSizeKB * 1024 + MiB
        c1 == IF c.bufferSize < bufferSize THEN ExpandBuffer(c, bufferSize) ELSE c
    IN [c1 EXCEPT !.stashSize = stashSizeKB * 1024]

\* _onLoaderChunkArrival, lines 802-812: adapt the stash size to the speed
AdjustToSpeed(c, KBps) ==
    IF KBps /= 0
    THEN LET normalized == NormalizeSpeed(KBps)
         IN IF c.speedNormalized /= normalized
            THEN AdjustStashSize([c EXCEPT !.speedNormalized = normalized], normalized)
            ELSE c
    ELSE c

\* variant of RemainArray that keeps the last consumed byte
RemainArrayOffByOne(buffer, consumed) ==
    RunsDrop(buffer, IF consumed > 0 THEN consumed - 1 ELSE 0)

\* new Uint8Array(buffer, consumed): the bytes of a buffer that follow the
\* ones the consumer absorbed
RemainArray(buffer, consumed) == RunsDrop(buffer, consumed)

\* IOController._flushStashBuffer
FlushStashBuffer(w, dropUnconsumed, mode) ==
    IF w.c.stashUsed > 0
    THEN LET buffer == Slice(w.c.stashBuffer, w.c.stashUsed)
             w1 == DispatchChunks(w, buffer, w.c.stashByteStart, mode)
             consumed == w1.ret
             len == RunsLen(buffer)
             remain == len - consumed
         IN IF consumed < len /\ ~dropUnconsumed
            THEN IF consumed > 0
                 THEN [w1 EXCEPT !.c.stashBuffer = BufSet(@, RemainArray(buffer, consumed), 0),
                                 !.c.stashUsed = remain,
                                 !.c.stashByteStart = @ + consumed,
                                 !.ret = 0]
                 ELSE [w1 EXCEPT !.ret = 0]
            ELSE [w1 EXCEPT !.c.stashUsed = 0, !.c.stashByteStart = 0, !.ret = remain]
    ELSE [w EXCEPT !.ret = 0]

\* IOController._internalSeek
InternalSeek(w, bytes, dropUnconsumed, mode) ==
    LET w1 == IF LoaderIsWorking(w.l) THEN [w EXCEPT !.l = LoaderAbort(@)] ELSE w
        w2 == FlushStashBuffer(w1, dropUnconsumed, mode)
    IN [w2 EXCEPT !.c.currentRange = [from |-> bytes, to |-> -1],
                  !.c.stashSize = w2.c.stashInitialSize,
                  !.l = LoaderOpen(LoaderNew, bytes),
                  !.e = Append(Append(@, [ev |-> "open", from |-> bytes]), [ev |-> "seeked"])]

(***************************************************************************)
(* IOController: loader callbacks                                          *)
(***************************************************************************)
\* variant of RecoverEarlyEof that leaves the reconnect flag set
RecoverEarlyEofKeepsFlag(w) ==
    IF w.c.isEarlyEofReconnecting
    THEN [w EXCEPT !.h.recovered = @ + 1,
                   !.e = Append(@, [ev |-> "recovered", stashUsed |-> w.c.stashUsed])]
    ELSE w

\* _onLoaderChunkArrival, lines 794-800: the first arrival after an EarlyEof
\* reconnect clears the flag and notifies onRecoveredEarlyEof
RecoverEarlyEof(w) ==
    IF w.c.isEarlyEofReconnecting
    THEN [w EXCEPT !.c.isEarlyEofReconnecting = FALSE,
                   !.h.recovered = @ + 1,
                   !.e = Append(@, [ev |-> "recovered", stashUsed |-> w.c.stashUsed])]
    ELSE w

\* _onLoaderChunkArrival, lines 814-844: stash disabled
ArrivalNoStash(w, chunk, byteStart, mode) ==
    LET byteLength == RunsLen(chunk)
    IN IF w.c.stashUsed = 0
       THEN LET w1 == DispatchChunks(w, chunk, byteStart, mode)
                consumed == w1.ret
                remain == byteLength - consumed
                c2 == IF remain > w1.c.bufferSize THEN ExpandBuffer(w1.c, remain) ELSE w1.c
            IN IF consumed < byteLength
               THEN [w1 EXCEPT !.c = [c2 EXCEPT !.stashBuffer = BufSet(@, RemainArray(chunk, consumed), 0),
                                                !.stashUsed = @ + remain,
                                                !.stashByteStart = byteStart + consumed]]
               ELSE w1
       ELSE LET c1 == IF w.c.stashUsed + byteLength > w.c.bufferSize
                      THEN ExpandBuffer(w.c, w.c.stashUsed + byteLength) ELSE w.c
                c2 == [c1 EXCEPT !.stashBuffer = BufSet(@, chunk, c1.stashUsed),
                                 !.stashUsed = @ + byteLength]
                w3 == DispatchChunks([w EXCEPT !.c = c2], Slice(c2.stashBuffer, c2.stashUsed),
                                     c2.stashByteStart, mode)
                consumed == w3.ret
            IN [w3 EXCEPT !.c.stashBuffer = IF consumed < c2.stashUsed /\ consumed > 0
                                            THEN BufSet(@, RemainArray(@, consumed), 0) ELSE @,
                          !.c.stashUsed = @ - consumed,
                          !.c.stashByteStart = @ + consumed]

\* _onLoaderChunkArrival, lines 846-849: the first chunk after a seek sets
\* the offset of the stash
MarkStashByteStart(c, byteStart) ==
    IF c.stashUsed = 0 /\ c.stashByteStart = 0
    THEN [c EXCEPT !.stashByteStart = byteStart] ELSE c

\* _onLoaderChunkArrival, lines 845-894: stash enabled
ArrivalStash(w0, chunk, byteStart, mode) ==
    LET byteLength == RunsLen(chunk)
        w == [w0 EXCEPT !.c = MarkStashByteStart(@, byteStart)]
    IN IF w.c.stashUsed + byteLength <= w.c.stashSize
       THEN [w EXCEPT !.c.stashBuffer = BufSet(@, chunk, w.c.stashUsed),
                      !.c.stashUsed = @ + byteLength]
       ELSE IF w.c.stashUsed > 0
       THEN LET buffer == Slice(w.c.stashBuffer, w.c.stashUsed)
                w1 == DispatchChunks(w, buffer, w.c.stashByteStart, mode)
                consumed == w1.ret
                c2 == IF consumed < RunsLen(buffer)
                      THEN IF consumed > 0
                           THEN [w1.c EXCEPT !.stashBuffer = BufSet(@, RemainArray(buffer, consumed), 0),
                                             !.stashUsed = RunsLen(buffer) - consumed,
                                             !.stashByteStart = @ + consumed]
                           ELSE w1.c
                      ELSE [w1.c EXCEPT !.stashUsed = 0, !.stashByteStart = @ + consumed]
                c3 == IF c2.stashUsed + byteLength > c2.bufferSize
                      THEN ExpandBuffer(c2, c2.stashUsed + byteLength) ELSE c2
            IN [w1 EXCEPT !.c = [c3 EXCEPT !.stashBuffer = BufSet(@, chunk, c3.stashUsed),
                                           !.stashUsed = @ + byteLength]]
       ELSE LET w1 == DispatchChunks(w, chunk, byteStart, mode)
                consumed == w1.ret
                remain == byteLength - consumed
                c2 == IF remain > w1.c.bufferSize THEN ExpandBuffer(w1.c, remain) ELSE w1.c
            IN IF consumed < byteLength
               THEN [w1 EXCEPT !.c = [c2 EXCEPT !.stashBuffer = BufSet(@, RemainArray(chunk, consumed), 0),
                                                !.stashUsed = @ + remain,
                                                !.stashByteStart = byteStart + consumed]]
               ELSE w1

\* IOController._onLoaderChunkArrival(chunk, byteStart, receivedLength) for
\* a chunk of byteLength bytes, a speed sampler reading of KBps and a consumer
\* that answers a dispatch as mode says
OnLoaderChunkArrival(w0, byteLength, KBps, mode) ==
    LET byteStart == w0.l.pos
        chunk == <<[off |-> byteStart, len |-> byteLength]>>
        w == [w0 EXCEPT !.l.pos = @ + byteLength, !.l.status = kBuffering,
                        !.h.received = RunsCat(@, chunk)]
    IN IF w.c.paused THEN w
       ELSE LET w1 == RecoverEarlyEof(w)
                w2 == [w1 EXCEPT !.c = AdjustToSpeed(@, KBps)]
            IN IF ~w2.c.enableStash
               THEN ArrivalNoStash(w2, chunk, byteStart, mode)
               ELSE ArrivalStash(w2, chunk, byteStart, mode)

\* IOController._onContentLengthKnown
OnContentLengthKnown(c, contentLength) ==
    IF contentLength /= 0 /\ c.fullRequestFlag
    THEN [c EXCEPT !.totalLength = contentLength, !.fullRequestFlag = FALSE]
    ELSE c

\* IOController._onLoaderComplete
OnLoaderComplete(w, mode) ==
    LET w1 == FlushStashBuffer([w EXCEPT !.l.status = kComplete], TRUE, mode)
    IN [w1 EXCEPT !.e = Append(@, [ev |-> "complete"])]

\* variant of EscalateType that reports the loader's own error type
EscalateTypeUnchanged(c, type) == type

\* _onLoaderError, lines 923-927: an error during a reconnect is reported
\* as UnrecoverableEarlyEof
EscalateType(c, type) ==
    IF c.isEarlyEofReconnecting THEN UNRECOVERABLE_EARLY_EOF ELSE type

\* _onLoaderError, lines 955-959: report to the consumer
ReportError(w, type) ==
    [w EXCEPT !.e = Append(@, [ev |-> "error", type |-> type])]

\* _onLoaderError, line 934: where the reconnect resumes
NextFrom(c) == c.currentRange.to + 1

\* IOController._onLoaderError(type, data); mode1 answers the dispatch of
\* the flush, mode2 the dispatch of the flush inside _internalSeek
OnLoaderError(w0, type0, mode1, mode2) ==
    LET w1 == FlushStashBuffer([w0 EXCEPT !.l.status = kError], FALSE, mode1)
        type == EscalateType(w1.c, type0)
        w2 == [w1 EXCEPT !.c.isEarlyEofReconnecting = FALSE,
                         !.h.failedReconnects = IF w1.c.isEarlyEofReconnecting THEN @ + 1 ELSE @]
    IN IF type = EARLY_EOF
       THEN IF ~w2.c.isLive /\ w2.c.totalLength /= 0
            THEN LET nextFrom == NextFrom(w2.c)
                 IN IF nextFrom < w2.c.totalLength
                    THEN InternalSeek([w2 EXCEPT !.c.isEarlyEofReconnecting = TRUE,
                                                 !.h.reconnects = @ + 1,
                                                 !.e = Append(@, [ev |-> "reconnect", from |-> nextFrom])],
                                      nextFrom, FALSE, mode2)
                    ELSE w2
            ELSE ReportError(w2, UNRECOVERABLE_EARLY_EOF)
       ELSE ReportError(w2, type)

(***************************************************************************)
(* IOController: operations of the owner                                   *)
(***************************************************************************)
\* IOController.open(optionalFrom)
IOOpen(w, optionalFrom) ==
    [w EXCEPT !.c.currentRange = [from |-> optionalFrom, to |-> -1],
              !.c.fullRequestFlag = IF optionalFrom = 0 THEN TRUE ELSE @,
              !.l = LoaderOpen(@, optionalFrom),
              !.e = Append(@, [ev |-> "open", from |-> optionalFrom])]

\* variant of pause that resumes after the bytes of the stash
IOPauseSkipsStash(w) ==
    IF IsWorking(w)
    THEN LET c == w.c
         IN [w EXCEPT !.l = LoaderAbort(@),
                      !.c = [c EXCEPT !.resumeFrom = IF c.stashUsed /= 0
                                                     THEN c.stashByteStart + c.stashUsed
                                                     ELSE c.currentRange.to + 1,
                                      !.currentRange.to = IF c.stashUsed /= 0 THEN c.stashByteStart - 1
                                                          ELSE @,
                                      !.stashUsed = 0,
                                      !.stashByteStart = 0,
                                      !.paused = TRUE]]
    ELSE w

\* IOController.pause
IOPause(w) ==
    IF IsWorking(w)
    THEN LET c == w.c
         IN [w EXCEPT !.l = LoaderAbort(@),
                      !.c = [c EXCEPT !.resumeFrom = IF c.stashUsed /= 0 THEN c.stashByteStart
                                                     ELSE c.currentRange.to + 1,
                                      !.currentRange.to = IF c.stashUsed /= 0 THEN c.stashByteStart - 1
                                                          ELSE @,
                                      !.stashUsed = 0,
                                      !.stashByteStart = 0,
                                      !.paused = TRUE]]
    ELSE w

\* IOController.resume
IOResume(w, mode) ==
    IF w.c.paused
    THEN InternalSeek([w EXCEPT !.c.paused = FALSE, !.c.resumeFrom = 0],
                      w.c.resumeFrom, TRUE, mode)
    ELSE w

\* variant of seek(bytes) that leaves the stash to the flush of _internalSeek
IOSeekFlushesStash(w, bytes, mode) ==
    InternalSeek([w EXCEPT !.c.paused = FALSE], bytes, TRUE, mode)

\* IOController.seek(bytes)
IOSeek(w, bytes, mode) ==
    InternalSeek([w EXCEPT !.c.paused = FALSE, !.c.stashUsed = 0, !.c.stashByteStart = 0],
                 bytes, TRUE, mode)

(***************************************************************************)
(* Values shared by the demuxer and the remuxer                            *)
(***************************************************************************)
\* JavaScript truthiness of a number that may be undefined
Truthy(opt) == opt /= Null /\ opt[1] /= 0

\* Math.floor, Math.round and Math.ceil of the rational num/den (den > 0)
FloorDiv(num, den) == num \div den
RoundDiv(num, den) == (2 * num + den) \div (2 * den)
CeilDiv(num, den) == (num + den - 1) \div den

Min(a, b) == IF a <= b THEN a ELSE b
Abs(a) == IF a < 0 THEN 0 - a ELSE a

\* Infinity, the initial _audioDtsBase/_videoDtsBase: above every timestamp
Infinity == 2147483647

TrackTypes == {"audio", "video"}

\* a track as the demuxer creates it: {type, id, sequenceNumber, samples, length}
TrackNew == [sequenceNumber |-> 0, samples |-> <<>>, length |-> 0]

(***************************************************************************)
(* MediaSegmentInfoList                                                    *)
(***************************************************************************)
\* SampleInfo.constructor
SampleInfo(dts, pts, duration, originalDts, isSync) ==
    [dts |-> dts, pts |-> pts, duration |-> duration, originalDts |-> originalDts,
     isSyncPoint |-> isSync, fileposition |-> Null]

\* MediaSegmentInfoList.constructor
MediaSegmentInfoListNew == [list |-> <<>>, lastAppendLocation |-> -1]

\* MediaSegmentInfoList.isEmpty
IsEmpty(sil) == Len(sil.list) = 0

\* MediaSegmentInfoList.clear
Clear(sil) == MediaSegmentInfoListNew

\* the binary search loop of _searchNearestSegmentBefore, on 0-based indices
RECURSIVE SearchLoop(_, _, _, _)
SearchLoop(list, originalBeginDts, lbound, ubound) ==
    IF lbound > ubound
    THEN 0
    ELSE LET last == Len(list) - 1
             mid == lbound + ((ubound - lbound) \div 2)
         IN IF mid = last
               \/ (/\ originalBeginDts > list[mid + 1].lastSample.originalDts
                   /\ originalBeginDts < list[mid + 2].originalBeginDts)
            THEN mid
            ELSE IF list[mid + 1].originalBeginDts < originalBeginDts
                 THEN SearchLoop(list, originalBeginDts, mid + 1, ubound)
                 ELSE SearchLoop(list, originalBeginDts, lbound, mid - 1)

\* MediaSegmentInfoList._searchNearestSegmentBefore: 0-based index, -1 when
\* the value precedes the first segment, -2 when the list is empty
SearchNearestSegmentBefore(sil, originalBeginDts) ==
    IF Len(sil.list) = 0
    THEN -2
    ELSE IF originalBeginDts < sil.list[1].originalBeginDts
         THEN -1
         ELSE SearchLoop(sil.list, originalBeginDts, 0, Len(sil.list) - 1)

\* Array.splice(insertIdx, 0, msi)
InsertAt(list, insertIdx, msi) ==
    SubSeq(list, 1, insertIdx) \o <<msi>> \o SubSeq(list, insertIdx + 1, Len(list))

\* MediaSegmentInfoList.append
SegmentInfoAppend(sil, msi) ==
    LET list == sil.list
        lastAppendIdx == sil.lastAppendLocation
        useCached ==
            /\ lastAppendIdx /= -1
            /\ lastAppendIdx < Len(list)
            /\ msi.originalBeginDts >= list[lastAppendIdx + 1].lastSample.originalDts
            /\ \/ lastAppendIdx = Len(list) - 1
               \/ /\ lastAppendIdx < Len(list) - 1
                  /\ msi.originalBeginDts < list[lastAppendIdx + 2].originalBeginDts
        insertIdx == IF useCached
                     THEN lastAppendIdx + 1
                     ELSE IF Len(list) > 0
                          THEN SearchNearestSegmentBefore(sil, msi.originalBeginDts) + 1
                          ELSE 0
    IN [list |-> InsertAt(list, insertIdx, msi), lastAppendLocation |-> insertIdx]

\* MediaSegmentInfoList.getLastSegmentBefore: Null or Some(segment)
GetLastSegmentBefore(sil, originalBeginDts) ==
    LET idx == SearchNearestSegmentBefore(sil, originalBeginDts)
    IN IF idx >= 0 THEN Some(sil.list[idx + 1]) ELSE Null

\* MediaSegmentInfoList.getLastSampleBefore: Null or Some(sample)
GetLastSampleBefore(sil, originalBeginDts) ==
    LET segment == GetLastSegmentBefore(sil, originalBeginDts)
    IN IF segment /= Null THEN Some(segment[1].lastSample) ELSE Null

(***************************************************************************)
(* IDRSampleList (src/src/core/media-segment-info.js)                      *)
(***************************************************************************)
\* IDRSampleList.constructor
IDRSampleListNew == [list |-> <<>>]

\* history kept for the properties: the last call, the list before it, its
\* argument and its result, and the number of calls made
IDRHistNew ==
    [ op |-> "new", prev |-> <<>>, batch |-> <<>>, dts |-> 0, result |-> Null,
      calls |-> 0 ]

\* IDRSampleList.clear: the field gets a new empty array
IDRClear(isl) == [isl EXCEPT !.list = <<>>]

\* IDRSampleList.appendArray: the local `list` names the array the field
\* held on entry; clear() gives the field a new array, and the entries are
\* pushed to `list`, which after clear() is no longer the field's array
IDRAppendArray(isl, syncPoints) ==
    LET list == isl.list
    IN IF Len(syncPoints) = 0
       THEN isl
       ELSE IF /\ Len(list) > 0
               /\ syncPoints[1].originalDts < list[Len(list)].originalDts
            THEN IDRClear(isl)
            ELSE [isl EXCEPT !.list = list \o syncPoints]

\* the loop of getLastSyncPointBeforeDts, lines 139-149, on 0-based indices:
\* the index it leaves in idx
RECURSIVE IDRSearchLoop(_, _, _, _)
IDRSearchLoop(list, dts, lbound, ubound) ==
    IF lbound > ubound
    THEN 0
    ELSE LET last == Len(list) - 1
             mid == lbound + ((ubound - lbound) \div 2)
         IN IF mid = last \/ (dts >= list[mid + 1].dts /\ dts < list[mid + 2].dts)
            THEN mid
            ELSE IF list[mid + 1].dts < dts
                 THEN IDRSearchLoop(list, dts, mid + 1, ubound)
                 ELSE IDRSearchLoop(list, dts, lbound, mid - 1)

\* IDRSampleList.getLastSyncPointBeforeDts: Null or Some(sync point)
GetLastSyncPointBeforeDts(isl, dts) ==
    IF Len(isl.list) = 0
    THEN Null
    ELSE IF dts < isl.list[1].dts
         THEN Some(isl.list[1])
         ELSE Some(isl.list[IDRSearchLoop(isl.list, dts, 0, Len(isl.list) - 1) + 1])

(***************************************************************************)
(* MP4Remuxer                                                              *)
(***************************************************************************)
\* MP4Remuxer.constructor; env holds what the constructor reads from the
\* config and from the browser detection
MP4RemuxerNew(env) ==
    [ isLive |-> env.isLive,
      dtsBase |-> -1,
      dtsBaseInited |-> FALSE,
      audioDtsBase |-> Infinity,
      videoDtsBase |-> Infinity,
      audioNextDts |-> Null,
      videoNextDts |-> Null,
      audioStashedLastSample |-> Null,
      videoStashedLastSample |-> Null,
      audioMeta |-> Null,
      videoMeta |-> Null,
      audioSegmentInfoList |-> MediaSegmentInfoListNew,
      videoSegmentInfoList |-> MediaSegmentInfoListNew,
      forceFirstIDR |-> env.forceFirstIDR,
      fillSilentAfterSeek |-> env.fillSilentAfterSeek,
      mp3UseMpegAudio |-> env.mp3UseMpegAudio,
      fillAudioTimestampGap |-> env.fixAudioTimestampGap,
      safari |-> env.safari ]

\* history kept for the properties: whether an init segment of each type
\* has been delivered, the last mfhd sequence number delivered per type,
\* the number of onMediaInfo calls, the number of calls made and the
\* timestamp the producer's stream has reached; dataCalls keeps for each
\* onDataAvailable call of the last parseChunks what the demuxer declared
\* and queued and what the consumer had been told at that moment, firstDts
\* the dts of the first sample of each track handed to the last remux call
MuxHistNew ==
    [ initSent |-> [t \in TrackTypes |-> FALSE],
      lastSeq |-> [t \in TrackTypes |-> Null],
      segments |-> [t \in TrackTypes |-> 0],
      mediaInfoCount |-> 0,
      calls |-> 0,
      clock |-> 0,
      byteStart |-> 0,
      batch |-> Null,
      pre |-> [t \in TrackTypes |-> Null],
      call |-> Null,
      ret |-> Null,
      processed |-> <<>>,
      dataCalls |-> <<>>,
      firstDts |-> [t \in TrackTypes |-> Null],
      pushed |-> [t \in TrackTypes |-> <<>>],
      nalus |-> <<>>,
      lastOp |-> "new" ]

\* MP4.mfhd: the sequence_number field holds the low 32 bits of the number,
\* which is the number itself for every number below 2^32
Mfhd(sequenceNumber) == sequenceNumber

\* MP4.box(type, ...datas): the byte length of the box, the 8 bytes of size
\* and type followed by the datas
RECURSIVE MP4Box(_)
MP4Box(datas) == IF datas = <<>> THEN 8 ELSE Head(datas) + MP4Box(Tail(datas))

\* MP4.sdtp: the byte length of the box, one byte for each sample
MP4Sdtp(sampleCount) == MP4Box(<<4 + sampleCount>>)

\* variant of MP4.trun that writes the offset as it receives it
MP4TrunOffsetAsGiven(sampleCount, offset) ==
    LET dataSize == 12 + 16 * sampleCount
    IN [ byteLength |-> MP4Box(<<dataSize>>), sampleCount |-> sampleCount,
         dataOffset |-> offset ]

\* MP4.trun(track, offset): the byte length of the box and its sample_count
\* and data_offset fields, which hold the numbers themselves below 2^32
MP4Trun(sampleCount, offset) ==
    LET dataSize == 12 + 16 * sampleCount
    IN [ byteLength |-> MP4Box(<<dataSize>>), sampleCount |-> sampleCount,
         dataOffset |-> offset + 8 + dataSize ]

\* MP4.traf: tfhd, tfdt, trun and sdtp
MP4Traf(sampleCount) ==
    LET tfhd == MP4Box(<<8>>)
        tfdt == MP4Box(<<8>>)
        sdtp == MP4Sdtp(sampleCount)
        trun == MP4Trun(sampleCount, sdtp + 16 + 16 + 8 + 16 + 8 + 8)
    IN [ byteLength |-> MP4Box(<<tfhd, tfdt, trun.byteLength, sdtp>>), trun |-> trun ]

\* MP4.moof(track, baseMediaDecodeTime): mfhd and traf
MP4Moof(sampleCount, sequenceNumber) ==
    LET traf == MP4Traf(sampleCount)
    IN [ byteLength |-> MP4Box(<<MP4Box(<<8>>), traf.byteLength>>),
         sequenceNumber |-> Mfhd(sequenceNumber), trun |-> traf.trun ]

\* (x >>> shift) & 0xFF for 0 <= x < 2^31
ByteOf(x, shift) == (x \div (2 ^ shift)) % 256

\* the four bytes and the two low bytes that the generators write for a
\* number, the high byte first
Bytes32(x) == <<ByteOf(x, 24), ByteOf(x, 16), ByteOf(x, 8), ByteOf(x, 0)>>
Bytes16(x) == <<ByteOf(x, 8), ByteOf(x, 0)>>

\* meta[name] as the shifts read it: 0 for a field the metadata does not have
MetaNumber(meta, name) == IF name \in DOMAIN meta THEN meta[name] ELSE 0

\* MP4.mvhd(timescale, duration): the fields written from the arguments
MP4Mvhd(timescale, duration) ==
    [ timescale |-> Bytes32(timescale), duration |-> Bytes32(duration) ]

\* MP4.tkhd(meta)
MP4Tkhd(meta) ==
    [ trackId |-> Bytes32(MetaNumber(meta, "id")),
      duration |-> Bytes32(meta.duration),
      width |-> Bytes16(MetaNumber(meta, "presentWidth")) \o <<0, 0>>,
      height |-> Bytes16(MetaNumber(meta, "presentHeight")) \o <<0, 0>> ]

\* MP4.mdhd(meta)
MP4Mdhd(meta) ==
    [ timescale |-> Bytes32(meta.timescale), duration |-> Bytes32(meta.duration) ]

\* MP4.mp4a(meta), and MP4.mp3(meta), which writes the same fields: the
\* sample rate is a 16.16 number whose integer part gets the two low bytes
MP4Mp4a(meta) ==
    [ channelCount |-> <<0, meta.channelCount>>,
      sampleRate |-> Bytes16(meta.audioSampleRate) \o <<0, 0>> ]

\* MP4.avc1(meta)
MP4Avc1(meta) ==
    [ width |-> Bytes16(MetaNumber(meta, "codecWidth")),
      height |-> Bytes16(MetaNumber(meta, "codecHeight")) ]

\* MP4.generateInitSegment(meta): the boxes of moov that carry fields of
\* the metadata
GenerateInitSegment(meta) ==
    [ mvhd |-> MP4Mvhd(meta.timescale, meta.duration),
      tkhd |-> MP4Tkhd(meta),
      mdhd |-> MP4Mdhd(meta),
      mp4a |-> IF meta.type = "audio" THEN Some(MP4Mp4a(meta)) ELSE Null,
      avc1 |-> IF meta.type = "audio" THEN Null ELSE Some(MP4Avc1(meta)) ]

\* MP4Remuxer._mergeBoxes(moof, mdat): the byte length of the result and
\* the place of the first byte of mdat in it
MergeBoxes(moofLength, mdatLength) ==
    [ byteLength |-> moofLength + mdatLength, mdatAt |-> moofLength ]

\* AAC.getSilentFrame(codec, channelCount): the byte length of the silent
\* frame of the table, Null where the table has none
GetSilentFrame(codec, channelCount) ==
    IF codec = "mp4a.40.2"
    THEN IF channelCount \in 1..6 THEN Some(8 + channelCount) ELSE Null
    ELSE IF channelCount \in 1..3 THEN Some(12 + channelCount) ELSE Null

\* the consumer's onInitSegment(type, initSegment)
OnInitSegment(w, type, initSegment) ==
    [w EXCEPT !.e = Append(@, [ev |-> "init", type |-> type, segment |-> initSegment]),
              !.h.initSent[type] = TRUE]

\* what the properties keep of the batch a segment is made of: nextDts
\* before the call, the sample popped for the stash, dtsBase and the
\* reference duration of the track
BatchOf(nextDts, lastSample, dtsBase, meta) ==
    [ nextDts |-> nextDts, stashed |-> lastSample, dtsBase |-> dtsBase,
      ref |-> meta[1].refSampleDuration, codec |-> meta[1].codec ]

\* the consumer's onMediaSegment(type, segment); moof is Null for a raw
\* MPEG stream, else the mfhd sequence number of the moof box
OnMediaSegment(w, type, moof, segment) ==
    [w EXCEPT !.e = Append(@, [ev |-> "media", type |-> type, moof |-> moof,
                               segment |-> segment,
                               initBefore |-> w.h.initSent[type],
                               prevSeq |-> w.h.lastSeq[type],
                               mediaInfoBefore |-> w.h.mediaInfoCount > 0,
                               batch |-> w.h.batch]),
              !.h.lastSeq[type] = IF moof /= Null THEN moof ELSE @,
              !.h.segments[type] = @ + 1]

\* MP4Remuxer.insertDiscontinuity
InsertDiscontinuity(w) ==
    [w EXCEPT !.r.audioNextDts = Null, !.r.videoNextDts = Null]

\* MP4Remuxer.seek
RemuxerSeek(w) ==
    [w EXCEPT !.r.audioStashedLastSample = Null,
              !.r.videoStashedLastSample = Null,
              !.r.videoSegmentInfoList = Clear(@),
              !.r.audioSegmentInfoList = Clear(@)]

\* _onTrackMetadataReceived without the delivery of the init segment
OnTrackMetadataReceivedSilent(w, type, metadata) ==
    IF type = "audio"
    THEN [w EXCEPT !.r.audioMeta = Some(metadata)]
    ELSE IF type = "video"
    THEN [w EXCEPT !.r.videoMeta = Some(metadata)]
    ELSE w

\* MP4Remuxer._onTrackMetadataReceived
OnTrackMetadataReceived(w, type, metadata) ==
    IF type = "audio"
    THEN LET w1 == [w EXCEPT !.r.audioMeta = Some(metadata)]
             mpeg == metadata.codec = "mp3" /\ w.r.mp3UseMpegAudio
         IN OnInitSegment(w1, type,
                [ container |-> IF mpeg THEN "audio/mpeg" ELSE "audio/mp4",
                  codec |-> IF mpeg THEN "" ELSE metadata.codec,
                  data |-> IF mpeg THEN Null ELSE Some(GenerateInitSegment(metadata)),
                  mediaDuration |-> metadata.duration ])
    ELSE IF type = "video"
    THEN LET w1 == [w EXCEPT !.r.videoMeta = Some(metadata)]
         IN OnInitSegment(w1, type,
                [ container |-> "video/mp4",
                  codec |-> metadata.codec,
                  data |-> Some(GenerateInitSegment(metadata)),
                  mediaDuration |-> metadata.duration ])
    ELSE w

\* variant of _calculateDtsBase that takes the first dts of the tracks of
\* every call
CalculateDtsBaseEveryCall(r, aTrack, vTrack) ==
    LET a == IF Len(aTrack.samples) > 0 THEN aTrack.samples[1].dts ELSE r.audioDtsBase
        v == IF Len(vTrack.samples) > 0 THEN vTrack.samples[1].dts ELSE r.videoDtsBase
    IN [r EXCEPT !.audioDtsBase = a, !.videoDtsBase = v,
                 !.dtsBase = Min(a, v), !.dtsBaseInited = TRUE]

\* MP4Remuxer._calculateDtsBase
CalculateDtsBase(r, aTrack, vTrack) ==
    IF r.dtsBaseInited
    THEN r
    ELSE LET a == IF Len(aTrack.samples) > 0 THEN aTrack.samples[1].dts ELSE r.audioDtsBase
             v == IF Len(vTrack.samples) > 0 THEN vTrack.samples[1].dts ELSE r.videoDtsBase
         IN [r EXCEPT !.audioDtsBase = a, !.videoDtsBase = v,
                      !.dtsBase = Min(a, v), !.dtsBaseInited = TRUE]

\* lines 416-427 and 718-727: the correction that continues the last sample
\* ls of the segments remuxed before
CorrectionAfter(ls, firstSampleOriginalDts) ==
    LET d0 == firstSampleOriginalDts - (ls.originalDts + ls.duration)
        distance == IF d0 <= 3 THEN 0 ELSE d0
        expectedDts == ls.dts + ls.duration + distance
    IN firstSampleOriginalDts - expectedDts

\* _remuxAudio 408-432 and _remuxVideo 711-730: the dts correction of a batch
DtsCorrection(nextDts, sil, firstSampleOriginalDts) ==
    IF Truthy(nextDts)
    THEN firstSampleOriginalDts - nextDts[1]
    ELSE IF IsEmpty(sil)
         THEN 0
         ELSE IF GetLastSampleBefore(sil, firstSampleOriginalDts) /= Null
              THEN CorrectionAfter(GetLastSampleBefore(sil, firstSampleOriginalDts)[1],
                                   firstSampleOriginalDts)
              ELSE 0

\* variant of Restash that leaves the bytes of the popped sample in the count
RestashKeepingBytes(samples, stashed) ==
    LET n == Len(samples)
        popped == n > 1
        lastSample == IF popped THEN Some(samples[n]) ELSE Null
        rest == IF popped THEN SubSeq(samples, 1, n - 1) ELSE samples
    IN [ lastSample |-> lastSample,
         samples |-> IF stashed /= Null THEN <<stashed[1]>> \o rest ELSE rest,
         bytes |-> IF stashed /= Null THEN stashed[1].length ELSE 0 ]

\* _remuxAudio 387-403 and _remuxVideo 690-706: pop the last sample of the
\* batch for the stash and put the stashed one of the previous batch first
Restash(samples, stashed) ==
    LET n == Len(samples)
        popped == n > 1
        lastSample == IF popped THEN Some(samples[n]) ELSE Null
        rest == IF popped THEN SubSeq(samples, 1, n - 1) ELSE samples
    IN [ lastSample |-> lastSample,
         samples |-> IF stashed /= Null THEN <<stashed[1]>> \o rest ELSE rest,
         bytes |-> (IF stashed /= Null THEN stashed[1].length ELSE 0)
                   - (IF popped THEN samples[n].length ELSE 0) ]

\* variant of SampleDuration that does not look at the stashed sample
SampleDurationWithoutStash(samples, i, dts, ctx, mp4Samples) ==
    IF i /= Len(samples)
    THEN (samples[i + 1].dts - ctx.dtsBase - ctx.dtsCorrection) - dts
    ELSE IF Len(mp4Samples) >= 1
         THEN mp4Samples[Len(mp4Samples)].duration
         ELSE FloorDiv(ctx.ref.num, ctx.ref.den)

\* the duration of sample i of a batch (1-based), lines 465-479 and 749-763
SampleDuration(samples, i, dts, ctx, mp4Samples) ==
    IF i /= Len(samples)
    THEN (samples[i + 1].dts - ctx.dtsBase - ctx.dtsCorrection) - dts
    ELSE IF ctx.lastSample /= Null
         THEN (ctx.lastSample[1].dts - ctx.dtsBase - ctx.dtsCorrection) - dts
         ELSE IF Len(mp4Samples) >= 1
              THEN mp4Samples[Len(mp4Samples)].duration
              ELSE FloorDiv(ctx.ref.num, ctx.ref.den)

\* variant of SilentFrames whose last frame lasts as long as the others
RECURSIVE SilentFramesEvenly(_, _, _, _, _, _, _)
SilentFramesEvenly(j, frameCount, dts, sampleDuration, originalDts, size, ref) ==
    IF j > frameCount
    THEN <<>>
    ELSE LET intDts == RoundDiv(dts * ref.den + j * ref.num, ref.den)
             nextInt == RoundDiv(dts * ref.den + (j + 1) * ref.num, ref.den)
         IN <<[ dts |-> intDts, pts |-> intDts, cts |-> 0, size |-> size,
                duration |-> nextInt - intDts, originalDts |-> originalDts, silent |-> TRUE ]>>
            \o SilentFramesEvenly(j + 1, frameCount, dts, sampleDuration, originalDts, size, ref)

\* silent frames j..frameCount generated after a sample, lines 506-535
RECURSIVE SilentFrames(_, _, _, _, _, _, _)
SilentFrames(j, frameCount, dts, sampleDuration, originalDts, size, ref) ==
    IF j > frameCount
    THEN <<>>
    ELSE LET intDts == RoundDiv(dts * ref.den + j * ref.num, ref.den)
             nextInt == RoundDiv(dts * ref.den + (j + 1) * ref.num, ref.den)
             duration == IF j = frameCount
                         THEN dts + sampleDuration - intDts
                         ELSE nextInt - intDts
         IN <<[ dts |-> intDts, pts |-> intDts, cts |-> 0, size |-> size,
                duration |-> duration, originalDts |-> originalDts, silent |-> TRUE ]>>
            \o SilentFrames(j + 1, frameCount, dts, sampleDuration, originalDts, size, ref)

\* the loop of _remuxAudio, lines 455-568, from sample i on
RECURSIVE AudioMp4Samples(_, _, _, _)
AudioMp4Samples(samples, i, ctx, mp4Samples) ==
    IF i > Len(samples)
    THEN mp4Samples
    ELSE LET sample == samples[i]
             originalDts == sample.dts - ctx.dtsBase
             dts == originalDts - ctx.dtsCorrection
             sampleDuration == SampleDuration(samples, i, dts, ctx, mp4Samples)
             needFillSilentFrames ==
                 /\ 2 * sampleDuration * ctx.ref.den > 3 * ctx.ref.num
                 /\ ctx.fillGap
             frameCount == CeilDiv(Abs(sampleDuration * ctx.ref.den - ctx.ref.num), ctx.ref.num)
             silentSize == IF ctx.silentUnit /= Null THEN ctx.silentUnit[1] ELSE sample.length
             silentFrames == IF needFillSilentFrames
                             THEN SilentFrames(1, frameCount, dts, sampleDuration,
                                               originalDts, silentSize, ctx.ref)
                             ELSE <<>>
             mp4Sample == [ dts |-> dts, pts |-> dts, cts |-> 0, size |-> sample.length,
                            duration |-> IF needFillSilentFrames
                                         THEN RoundDiv(ctx.ref.num, ctx.ref.den)
                                         ELSE sampleDuration,
                            originalDts |-> originalDts, rawDts |-> sample.dts,
                            silent |-> FALSE ]
         IN AudioMp4Samples(samples, i + 1, ctx, mp4Samples \o <<mp4Sample>> \o silentFrames)

\* the sum of the sizes of the silent frames among the mp4 samples
RECURSIVE SilentBytes(_)
SilentBytes(mp4Samples) ==
    IF mp4Samples = <<>>
    THEN 0
    ELSE (IF Head(mp4Samples).silent THEN Head(mp4Samples).size ELSE 0)
         + SilentBytes(Tail(mp4Samples))

\* the sum of the lengths of the samples
RECURSIVE SamplesLength(_)
SamplesLength(samples) ==
    IF samples = <<>> THEN 0 ELSE Head(samples).length + SamplesLength(Tail(samples))

\* lines 434-450: the silent frame put before the first samples after a
\* seek, <<>> where none is put
SilentPrefix(w, meta, firstSampleOriginalDts, dtsCorrection) ==
    LET videoSegment == GetLastSegmentBefore(w.r.videoSegmentInfoList, firstSampleOriginalDts)
        silentUnit == GetSilentFrame(meta.originalCodec, meta.channelCount)
    IN IF /\ ~Truthy(w.r.audioNextDts)
          /\ IsEmpty(w.r.audioSegmentInfoList)
          /\ w.r.fillSilentAfterSeek
          /\ ~IsEmpty(w.r.videoSegmentInfoList)
          /\ meta.originalCodec /= "mp3"
          /\ videoSegment /= Null
          /\ videoSegment[1].beginDts < firstSampleOriginalDts - dtsCorrection
          /\ silentUnit /= Null
       THEN <<[ dts |-> videoSegment[1].beginDts, pts |-> videoSegment[1].beginDts,
                length |-> silentUnit[1] ]>>
       ELSE <<>>

\* lines 570-617: the MediaSegmentInfo of the mp4 samples of a segment
SegmentInfo(mp4Samples, isVideo, syncPoints) ==
    LET first == mp4Samples[1]
        latest == mp4Samples[Len(mp4Samples)]
    IN [ beginDts |-> first.dts,
         endDts |-> latest.dts + latest.duration,
         beginPts |-> IF isVideo THEN first.pts ELSE first.dts,
         endPts |-> IF isVideo THEN latest.pts + latest.duration
                    ELSE latest.dts + latest.duration,
         originalBeginDts |-> first.originalDts,
         originalEndDts |-> latest.originalDts + latest.duration,
         syncPoints |-> syncPoints,
         firstSample |-> SampleInfo(first.dts, first.pts, first.duration, first.originalDts,
                                    isVideo /\ first.isKeyframe),
         lastSample |-> SampleInfo(latest.dts, latest.pts, latest.duration,
                                   latest.originalDts, isVideo /\ latest.isKeyframe) ]

\* lines 570-655: the audio segment of the mp4 samples is recorded and
\* delivered; extraBytes are the bytes of mdat that are not in track.length
EmitAudioSegment(w, track, mpegRawTrack, afterSeek, lastSample, extraBytes, mp4Samples, info) ==
    OnMediaSegment(
        [w EXCEPT !.h.batch = BatchOf(w.r.audioNextDts, lastSample, w.r.dtsBase, w.r.audioMeta),
                  !.r.audioStashedLastSample = lastSample,
                  !.r.audioNextDts = Some(info.endDts),
                  !.r.audioSegmentInfoList =
                      IF w.r.isLive THEN @ ELSE SegmentInfoAppend(@, info)],
        "audio",
        IF mpegRawTrack THEN Null ELSE Some(Mfhd(track.sequenceNumber + 1)),
        [ sampleCount |-> Len(mp4Samples), info |-> info, samples |-> mp4Samples,
          mdatBytes |-> (IF mpegRawTrack THEN 0 ELSE 8) + track.length + extraBytes
                        + SilentBytes(mp4Samples),
          moofBox |-> IF mpegRawTrack THEN Null
                      ELSE Some(MP4Moof(Len(mp4Samples), track.sequenceNumber + 1)),
          mdatOffset |-> IF mpegRawTrack THEN 0 ELSE 8,
          baseMediaDecodeTime |-> info.beginDts,
          timestampOffset |-> IF mpegRawTrack /\ afterSeek
                              THEN Some(info.beginDts) ELSE Null ])

\* lines 405-568: the batch rs that Restash made of the track's samples is
\* corrected, prefixed and turned into mp4 samples
RemuxAudioBatch(w, track, meta, rs) ==
    LET mpegRawTrack == meta.codec = "mp3" /\ w.r.mp3UseMpegAudio
        firstSegmentAfterSeek == w.r.dtsBaseInited /\ w.r.audioNextDts = Null
        firstSampleOriginalDts == rs.samples[1].dts - w.r.dtsBase
        dtsCorrection == DtsCorrection(w.r.audioNextDts, w.r.audioSegmentInfoList,
                                       firstSampleOriginalDts)
        prefix == SilentPrefix(w, meta, firstSampleOriginalDts, dtsCorrection)
        ctx == [ dtsBase |-> w.r.dtsBase, dtsCorrection |-> dtsCorrection,
                 lastSample |-> rs.lastSample, ref |-> meta.refSampleDuration,
                 fillGap |-> /\ meta.codec /= "mp3"
                             /\ w.r.fillAudioTimestampGap
                             /\ ~w.r.safari,
                 silentUnit |-> GetSilentFrame(meta.originalCodec, meta.channelCount) ]
        mp4Samples == AudioMp4Samples(prefix \o rs.samples, 1, ctx, <<>>)
    IN [ w |-> EmitAudioSegment(w, track, mpegRawTrack, firstSegmentAfterSeek,
                                rs.lastSample,
                                rs.bytes + SamplesLength(prefix),
                                mp4Samples, SegmentInfo(mp4Samples, FALSE, <<>>)),
         track |-> [sequenceNumber |-> track.sequenceNumber + 1, samples |-> <<>>,
                    length |-> 0] ]

\* variant of _remuxAudio that remuxes a batch of one sample without force
RemuxAudioSingle(w, track, force) ==
    IF \/ w.r.audioMeta = Null
       \/ Len(track.samples) = 0
    THEN [w |-> w, track |-> track]
    ELSE RemuxAudioBatch(w, track, w.r.audioMeta[1],
                         Restash(track.samples, w.r.audioStashedLastSample))

\* MP4Remuxer._remuxAudio: the world and the track after the call
RemuxAudio(w, track, force) ==
    IF \/ w.r.audioMeta = Null
       \/ Len(track.samples) = 0
       \/ (Len(track.samples) = 1 /\ ~force)
    THEN [w |-> w, track |-> track]
    ELSE RemuxAudioBatch(w, track, w.r.audioMeta[1],
                         Restash(track.samples, w.r.audioStashedLastSample))
\* the loop of _remuxVideo, lines 736-791, from sample i on
RECURSIVE VideoMp4Samples(_, _, _, _)
VideoMp4Samples(samples, i, ctx, mp4Samples) ==
    IF i > Len(samples)
    THEN mp4Samples
    ELSE LET sample == samples[i]
             originalDts == sample.dts - ctx.dtsBase
             dts == originalDts - ctx.dtsCorrection
             sampleDuration == SampleDuration(samples, i, dts, ctx, mp4Samples)
             mp4Sample == [ dts |-> dts, pts |-> dts + sample.cts, cts |-> sample.cts,
                            size |-> sample.length, isKeyframe |-> sample.isKeyframe,
                            duration |-> sampleDuration, originalDts |-> originalDts,
                            rawDts |-> sample.dts, fileposition |-> sample.fileposition,
                            flags |-> [ dependsOn |-> IF sample.isKeyframe THEN 2 ELSE 1,
                                        isDependedOn |-> IF sample.isKeyframe THEN 1 ELSE 0,
                                        isNonSync |-> IF sample.isKeyframe THEN 0 ELSE 1 ] ]
         IN VideoMp4Samples(samples, i + 1, ctx, Append(mp4Samples, mp4Sample))

\* the sync points of a video segment, lines 765-769
RECURSIVE SyncPoints(_)
SyncPoints(mp4Samples) ==
    IF mp4Samples = <<>>
    THEN <<>>
    ELSE LET s == Head(mp4Samples)
         IN (IF s.isKeyframe
             THEN <<[SampleInfo(s.dts, s.pts, s.duration, s.rawDts, TRUE)
                        EXCEPT !.fileposition = s.fileposition]>>
             ELSE <<>>)
            \o SyncPoints(Tail(mp4Samples))

\* lines 843-847: with the workaround the first sample is a random access point
ForceFirstIDR(mp4Samples) ==
    [mp4Samples EXCEPT ![1].flags.dependsOn = 2, ![1].flags.isNonSync = 0]

\* lines 793-865: the video segment of the mp4 samples is recorded and
\* delivered
EmitVideoSegment(w, track, lastSample, extraBytes, mp4Samples, info) ==
    OnMediaSegment(
        [w EXCEPT !.h.batch = BatchOf(w.r.videoNextDts, lastSample, w.r.dtsBase, w.r.videoMeta),
                  !.r.videoStashedLastSample = lastSample,
                  !.r.videoNextDts = Some(info.endDts),
                  !.r.videoSegmentInfoList =
                      IF w.r.isLive THEN @ ELSE SegmentInfoAppend(@, info)],
        "video",
        Some(Mfhd(track.sequenceNumber + 1)),
        [ sampleCount |-> Len(mp4Samples), info |-> info,
          samples |-> IF w.r.forceFirstIDR THEN ForceFirstIDR(mp4Samples) ELSE mp4Samples,
          mdatBytes |-> 8 + track.length + extraBytes,
          moofBox |-> Some(MP4Moof(Len(mp4Samples), track.sequenceNumber + 1)),
          mdatOffset |-> 8,
          baseMediaDecodeTime |-> info.beginDts,
          timestampOffset |-> Null ])

\* lines 708-791: the batch rs that Restash made of the track's samples is
\* corrected and turned into mp4 samples
RemuxVideoBatch(w, track, meta, rs) ==
    LET ctx == [ dtsBase |-> w.r.dtsBase,
                 dtsCorrection |-> DtsCorrection(w.r.videoNextDts, w.r.videoSegmentInfoList,
                                                 rs.samples[1].dts - w.r.dtsBase),
                 lastSample |-> rs.lastSample, ref |-> meta.refSampleDuration ]
        mp4Samples == VideoMp4Samples(rs.samples, 1, ctx, <<>>)
    IN [ w |-> EmitVideoSegment(w, track, rs.lastSample, rs.bytes, mp4Samples,
                                SegmentInfo(mp4Samples, TRUE, SyncPoints(mp4Samples))),
         track |-> [sequenceNumber |-> track.sequenceNumber + 1, samples |-> <<>>,
                    length |-> 0] ]

\* MP4Remuxer._remuxVideo: the world and the track after the call
RemuxVideo(w, track, force) ==
    IF \/ w.r.videoMeta = Null
       \/ Len(track.samples) = 0
       \/ (Len(track.samples) = 1 /\ ~force)
    THEN [w |-> w, track |-> track]
    ELSE RemuxVideoBatch(w, track, w.r.videoMeta[1],
                         Restash(track.samples, w.r.videoStashedLastSample))

\* the demuxer's track of the type is the track object the remuxer changed
WithTrack(type, res) ==
    IF type = "video"
    THEN [res.w EXCEPT !.v = res.track]
    ELSE [res.w EXCEPT !.a = res.track]

\* lines 212-215: the two tracks of the demuxer are remuxed, video first
RemuxVideoTrack(w) == WithTrack("video", RemuxVideo(w, w.v, FALSE))
RemuxAudioTrack(w) == WithTrack("audio", RemuxAudio(w, w.a, FALSE))

\* MP4Remuxer.remux(audioTrack, videoTrack), called with the demuxer's tracks
Remux(w) ==
    RemuxAudioTrack(RemuxVideoTrack([w EXCEPT !.r = CalculateDtsBase(@, w.a, w.v)]))

\* variant of flushStashedSamples that leaves the stashed samples in their
\* slots while they are remuxed
FlushStashedSamplesKeepsStash(w) ==
    LET videoSample == w.r.videoStashedLastSample
        audioSample == w.r.audioStashedLastSample
        videoTrack0 == IF videoSample /= Null
                       THEN [TrackNew EXCEPT !.samples = <<videoSample[1]>>,
                                             !.length = videoSample[1].length]
                       ELSE TrackNew
        audioTrack0 == IF audioSample /= Null
                       THEN [TrackNew EXCEPT !.samples = <<audioSample[1]>>,
                                             !.length = audioSample[1].length]
                       ELSE TrackNew
        rv == RemuxVideo(w, videoTrack0, TRUE)
    IN RemuxAudio(rv.w, audioTrack0, TRUE).w

\* MP4Remuxer.flushStashedSamples: the stashed samples go through tracks
\* made on the spot
FlushStashedSamples(w) ==
    LET videoSample == w.r.videoStashedLastSample
        audioSample == w.r.audioStashedLastSample
        videoTrack0 == IF videoSample /= Null
                       THEN [TrackNew EXCEPT !.samples = <<videoSample[1]>>,
                                             !.length = videoSample[1].length]
                       ELSE TrackNew
        audioTrack0 == IF audioSample /= Null
                       THEN [TrackNew EXCEPT !.samples = <<audioSample[1]>>,
                                             !.length = audioSample[1].length]
                       ELSE TrackNew
        w1 == [w EXCEPT !.r.videoStashedLastSample = Null,
                        !.r.audioStashedLastSample = Null]
        rv == RemuxVideo(w1, videoTrack0, TRUE)
    IN RemuxAudio(rv.w, audioTrack0, TRUE).w

(***************************************************************************)
(* MediaInfo                                                               *)
(***************************************************************************)
\* MediaInfo.constructor: every field null
MediaInfoNew ==
    [ mimeType |-> Null, duration |-> Null, hasAudio |-> Null, hasVideo |-> Null,
      audioCodec |-> Null, videoCodec |-> Null, audioDataRate |-> Null,
      videoDataRate |-> Null, audioSampleRate |-> Null, audioChannelCount |-> Null,
      width |-> Null, height |-> Null, fps |-> Null, profile |-> Null, level |-> Null,
      refFrames |-> Null, chromaFormat |-> Null, sarNum |-> Null, sarDen |-> Null,
      metadata |-> Null, hasKeyframesIndex |-> Null, keyframesIndex |-> Null ]

\* MediaInfo.isComplete
IsComplete(mi) ==
    LET audioInfoComplete ==
            \/ mi.hasAudio = Some(FALSE)
            \/ /\ mi.hasAudio = Some(TRUE)
               /\ mi.audioCodec /= Null
               /\ mi.audioSampleRate /= Null
               /\ mi.audioChannelCount /= Null
        videoInfoComplete ==
            \/ mi.hasVideo = Some(FALSE)
            \/ /\ mi.hasVideo = Some(TRUE)
               /\ mi.videoCodec /= Null
               /\ mi.width /= Null
               /\ mi.height /= Null
               /\ mi.fps /= Null
               /\ mi.profile /= Null
               /\ mi.level /= Null
               /\ mi.refFrames /= Null
               /\ mi.chromaFormat /= Null
               /\ mi.sarNum /= Null
               /\ mi.sarDen /= Null
    IN /\ mi.mimeType /= Null
       /\ mi.duration /= Null
       /\ mi.metadata /= Null
       /\ mi.hasKeyframesIndex /= Null
       /\ audioInfoComplete
       /\ videoInfoComplete

\* list[idx] of an array, 0-based: undefined outside the array
ElemAt(list, idx) ==
    IF idx >= 0 /\ idx < Len(list) THEN Some(list[idx + 1]) ELSE Null

\* variant of the loop of _search that takes an entry only when the value
\* is above it
RECURSIVE KeyframeSearchLoopAbove(_, _, _, _)
KeyframeSearchLoopAbove(list, value, lbound, ubound) ==
    IF lbound > ubound
    THEN 0
    ELSE LET last == Len(list) - 1
             mid == lbound + ((ubound - lbound) \div 2)
         IN IF mid = last \/ (value > list[mid + 1] /\ value <= list[mid + 2])
            THEN mid
            ELSE IF list[mid + 1] < value
                 THEN KeyframeSearchLoopAbove(list, value, mid + 1, ubound)
                 ELSE KeyframeSearchLoopAbove(list, value, lbound, mid - 1)

\* the loop of MediaInfo._search, lines 134-144, on 0-based indices: the
\* index it leaves in idx
RECURSIVE KeyframeSearchLoop(_, _, _, _)
KeyframeSearchLoop(list, value, lbound, ubound) ==
    IF lbound > ubound
    THEN 0
    ELSE LET last == Len(list) - 1
             mid == lbound + ((ubound - lbound) \div 2)
         IN IF mid = last \/ (value >= list[mid + 1] /\ value < list[mid + 2])
            THEN mid
            ELSE IF list[mid + 1] < value
                 THEN KeyframeSearchLoop(list, value, mid + 1, ubound)
                 ELSE KeyframeSearchLoop(list, value, lbound, mid - 1)

\* MediaInfo._search(list, value): value < list[0] is false on an empty
\* list, where list[0] is undefined
KeyframeSearch(list, value) ==
    IF Len(list) > 0 /\ value < list[1]
    THEN 0
    ELSE KeyframeSearchLoop(list, value, 0, Len(list) - 1)

\* MediaInfo.getNearestKeyframe: Null or Some of the object returned
GetNearestKeyframe(mi, milliseconds) ==
    IF mi.keyframesIndex = Null
    THEN Null
    ELSE LET table == mi.keyframesIndex[1]
             keyframeIdx == KeyframeSearch(table.times, milliseconds)
         IN Some([ index |-> keyframeIdx,
                   milliseconds |-> ElemAt(table.times, keyframeIdx),
                   fileposition |-> ElemAt(table.filepositions, keyframeIdx) ])

(***************************************************************************)
(* FLVDemuxer                                                              *)
(***************************************************************************)
\* data[index] of a Uint8Array: undefined past the end of the buffer
ByteAt(data, index) == IF index < Len(data) THEN Some(data[index + 1]) ELSE Null

\* the operand of a bit operator: undefined counts as 0
ToInt32(opt) == IF opt = Null THEN 0 ELSE opt[1]

\* byte << 24 on 32-bit signed integers
ShiftLeft24(byte) == IF byte >= 128 THEN (byte - 256) * 16777216 ELSE byte * 16777216

\* ReadBig32(array, index): the four fields do not overlap, so the bitwise
\* or of them is their sum
ReadBig32(array, index) ==
    ShiftLeft24(ToInt32(ByteAt(array, index)))
    + ToInt32(ByteAt(array, index + 1)) * 65536
    + ToInt32(ByteAt(array, index + 2)) * 256
    + ToInt32(ByteAt(array, index + 3))

\* what probe answers for a buffer that is not an FLV header
Mismatch ==
    [ match |-> FALSE, consumed |-> Null, dataOffset |-> Null,
      hasAudioTrack |-> Null, hasVideoTrack |-> Null ]

\* probe, lines 262-274: the header size decides
ProbeOffset(data, offset) ==
    IF offset < 9
    THEN Mismatch
    ELSE [ match |-> TRUE, consumed |-> offset, dataOffset |-> offset,
           hasAudioTrack |-> (ToInt32(ByteAt(data, 4)) \div 4) % 2 /= 0,
           hasVideoTrack |-> ToInt32(ByteAt(data, 4)) % 2 /= 0 ]

\* FLVDemuxer.probe(buffer)
Probe(data) ==
    IF \/ ByteAt(data, 0) /= Some(70)
       \/ ByteAt(data, 1) /= Some(76)
       \/ ByteAt(data, 2) /= Some(86)
       \/ ByteAt(data, 3) /= Some(1)
    THEN Mismatch
    ELSE ProbeOffset(data, ReadBig32(data, 5))

\* FLVDemuxer.constructor(probeData, config)
FLVDemuxerNew(probeData) ==
    [ dataOffset |-> probeData.dataOffset,
      firstParse |-> TRUE,
      dispatch |-> FALSE,
      hasAudio |-> probeData.hasAudioTrack,
      hasVideo |-> probeData.hasVideoTrack,
      hasAudioFlagOverrided |-> FALSE,
      hasVideoFlagOverrided |-> FALSE,
      audioInitialMetadataDispatched |-> FALSE,
      videoInitialMetadataDispatched |-> FALSE,
      mediaInfo |-> [MediaInfoNew EXCEPT !.hasAudio = Some(probeData.hasAudioTrack),
                                         !.hasVideo = Some(probeData.hasVideoTrack)],
      metadata |-> Null,
      audioMetadata |-> Null,
      videoMetadata |-> Null,
      naluLengthSize |-> 4,
      timestampBase |-> 0,
      timescale |-> 1000,
      duration |-> 0,
      durationOverrided |-> FALSE,
      referenceFrameRate |-> [fixed |-> TRUE, fps_num |-> 23976, fps_den |-> 1000] ]

\* variant of IsInitialMetadataDispatched that is content with the metadata
\* of one track
IsInitialMetadataDispatchedEither(d) ==
    d.audioInitialMetadataDispatched \/ d.videoInitialMetadataDispatched

\* FLVDemuxer._isInitialMetadataDispatched
IsInitialMetadataDispatched(d) ==
    IF d.hasAudio /\ d.hasVideo
    THEN d.audioInitialMetadataDispatched /\ d.videoInitialMetadataDispatched
    ELSE IF d.hasAudio /\ ~d.hasVideo
         THEN d.audioInitialMetadataDispatched
         ELSE IF ~d.hasAudio /\ d.hasVideo
              THEN d.videoInitialMetadataDispatched
              ELSE FALSE

\* the consumer's onMediaInfo(mediaInfo)
OnMediaInfo(w) ==
    [w EXCEPT !.e = Append(@, [ev |-> "mediaInfo", mediaInfo |-> w.d.mediaInfo]),
              !.h.mediaInfoCount = @ + 1]

\* the consumer's onError(type, info)
OnDemuxError(w, type) ==
    [w EXCEPT !.e = Append(@, [ev |-> "demuxError", type |-> type])]

\* if (mi.isComplete()) this._onMediaInfo(mi)
NotifyIfComplete(w) ==
    IF IsComplete(w.d.mediaInfo) THEN OnMediaInfo(w) ELSE w

\* this._onDataAvailable(this._audioTrack, this._videoTrack): the consumer
\* is the remuxer's remux
OnDataAvailable(w) ==
    Remux([w EXCEPT !.h.dataCalls =
              Append(@, [ hasAudio |-> w.d.hasAudio, hasVideo |-> w.d.hasVideo,
                          audioDelivered |-> w.r.audioMeta /= Null,
                          videoDelivered |-> w.r.videoMeta /= Null,
                          queued |-> Len(w.a.samples) + Len(w.v.samples) ])])

\* lines 793-801 and 1392-1398: parsed frames are handed over before a
\* non-initial metadata, the first metadata of a track is only recorded
DispatchBeforeMetadata(w, type) ==
    IF IsInitialMetadataDispatched(w.d)
    THEN IF w.d.dispatch /\ (w.a.length /= 0 \/ w.v.length /= 0)
         THEN OnDataAvailable(w)
         ELSE w
    ELSE IF type = "audio"
         THEN [w EXCEPT !.d.audioInitialMetadataDispatched = TRUE]
         ELSE [w EXCEPT !.d.videoInitialMetadataDispatched = TRUE]

\* mi.mimeType after the audio codec is known, lines 813-819
AudioMimeType(mi) ==
    IF mi.hasVideo = Some(TRUE)
    THEN IF mi.videoCodec /= Null
         THEN Some(<<"video/x-flv", mi.videoCodec[1], mi.audioCodec[1]>>)
         ELSE mi.mimeType
    ELSE Some(<<"video/x-flv", mi.audioCodec[1]>>)

\* mi.mimeType after the video codec is known, lines 1355-1361
VideoMimeType(mi) ==
    IF mi.hasAudio = Some(TRUE)
    THEN IF mi.audioCodec /= Null
         THEN Some(<<"video/x-flv", mi.videoCodec[1], mi.audioCodec[1]>>)
         ELSE mi.mimeType
    ELSE Some(<<"video/x-flv", mi.videoCodec[1]>>)

\* FLVDemuxer._parseKeyframesIndex: the first entry is left out, the times
\* in seconds become milliseconds after timestampBase
ParseKeyframesIndex(d, keyframes) ==
    [ times |-> [i \in 1..(Len(keyframes.times) - 1) |->
                   d.timestampBase + FloorDiv(keyframes.times[i + 1].num * 1000,
                                              keyframes.times[i + 1].den)],
      filepositions |-> [i \in 1..(Len(keyframes.times) - 1) |->
                           keyframes.filepositions[i + 1]] ]

\* FLVDemuxer._parseScriptData; tag.scriptData maps the names of the AMF
\* object to values, md.x is Null where onMetaData has no x of the type
\* the code tests for
ParseScriptData(w, tag) ==
    IF ~tag.hasOnMetaData
    THEN w
    ELSE IF tag.onMetaData = Null
    THEN w
    ELSE LET md == tag.onMetaData[1]
             d == w.d
             hasAudio == IF md.hasAudio /= Null /\ ~d.hasAudioFlagOverrided
                         THEN md.hasAudio[1] ELSE d.hasAudio
             hasVideo == IF md.hasVideo /= Null /\ ~d.hasVideoFlagOverrided
                         THEN md.hasVideo[1] ELSE d.hasVideo
             duration == IF md.duration /= Null /\ ~d.durationOverrided
                         THEN FloorDiv(md.duration[1].num * d.timescale, md.duration[1].den)
                         ELSE d.duration
             fps_num == IF md.framerate /= Null
                        THEN FloorDiv(md.framerate[1].num * 1000, md.framerate[1].den)
                        ELSE 0
             mi0 == d.mediaInfo
             mi1 == [mi0 EXCEPT
                       !.hasAudio = IF md.hasAudio /= Null /\ ~d.hasAudioFlagOverrided
                                    THEN Some(hasAudio) ELSE @,
                       !.hasVideo = IF md.hasVideo /= Null /\ ~d.hasVideoFlagOverrided
                                    THEN Some(hasVideo) ELSE @,
                       !.audioDataRate = IF md.audiodatarate /= Null THEN md.audiodatarate ELSE @,
                       !.videoDataRate = IF md.videodatarate /= Null THEN md.videodatarate ELSE @,
                       !.width = IF md.width /= Null THEN md.width ELSE @,
                       !.height = IF md.height /= Null THEN md.height ELSE @,
                       !.duration = IF md.duration /= Null
                                    THEN (IF d.durationOverrided THEN @ ELSE Some(duration))
                                    ELSE Some(0),
                       !.fps = IF fps_num > 0 THEN Some([num |-> fps_num, den |-> 1000]) ELSE @,
                       !.hasKeyframesIndex = Some(md.keyframes /= Null),
                       !.keyframesIndex = IF md.keyframes /= Null
                                          THEN Some(ParseKeyframesIndex(d, md.keyframes[1]))
                                          ELSE @,
                       !.metadata = Some(md) ]
             w1 == [w EXCEPT !.d.metadata = Some(md),
                             !.d.hasAudio = hasAudio,
                             !.d.hasVideo = hasVideo,
                             !.d.duration = duration,
                             !.d.referenceFrameRate =
                                 IF fps_num > 0
                                 THEN [fixed |-> TRUE, fps_num |-> fps_num, fps_den |-> 1000]
                                 ELSE @,
                             !.d.mediaInfo = mi1,
                             !.d.dispatch = FALSE]
         IN NotifyIfComplete(w1)

\* the metadata object of a track before a config has been parsed,
\* lines 758-764 and 1253-1257; "" and 0/1 stand for fields not yet set
TrackMetadataNew(type, d) ==
    [ type |-> type, timescale |-> d.timescale, duration |-> d.duration,
      codec |-> "", originalCodec |-> "", hasConfig |-> FALSE,
      audioSampleRate |-> 0, channelCount |-> 0,
      refSampleDuration |-> [num |-> 0, den |-> 1] ]

\* lines 808-825 and 860-874: the audio fields of the MediaInfo are taken
\* from the metadata; dataRate is Null where the code leaves audioDataRate
AudioMediaInfo(w, codec, meta, dataRate) ==
    NotifyIfComplete(
        [w EXCEPT !.d.mediaInfo =
            [@ EXCEPT !.audioCodec = Some(codec),
                      !.audioSampleRate = Some(meta.audioSampleRate),
                      !.audioChannelCount = Some(meta.channelCount),
                      !.audioDataRate = IF dataRate /= Null THEN dataRate ELSE @,
                      !.mimeType = AudioMimeType([w.d.mediaInfo EXCEPT
                                                    !.audioCodec = Some(codec)])]])

\* lines 776-825: an AudioSpecificConfig has been parsed into meta
AACConfigParsed(w, meta) ==
    AudioMediaInfo(
        OnTrackMetadataReceived(
            [DispatchBeforeMetadata([w EXCEPT !.d.audioMetadata = Some(meta)], "audio")
                EXCEPT !.d.dispatch = FALSE],
            "audio", meta),
        meta.originalCodec, meta, Null)

\* lines 843-874: the header of the first MP3 frame has been parsed into meta
MP3HeaderParsed(w, meta, bitRate) ==
    AudioMediaInfo(
        OnTrackMetadataReceived(
            [w EXCEPT !.d.audioMetadata = Some(meta),
                      !.d.audioInitialMetadataDispatched = TRUE],
            "audio", meta),
        meta.codec, meta, Some(bitRate))

\* a parsed audio frame is pushed on the audio track
PushAudioSample(w, sample) ==
    [w EXCEPT !.a.samples = Append(@, sample), !.a.length = @ + sample.length,
              !.h.pushed["audio"] = Append(@, sample.dts)]

\* meta with the fields read from an AudioSpecificConfig or an MP3 header
AudioMetaOf(meta0, misc, samplesPerFrame, hasConfig) ==
    [meta0 EXCEPT !.audioSampleRate = misc.samplingRate,
                  !.channelCount = misc.channelCount,
                  !.codec = misc.codec,
                  !.originalCodec = misc.originalCodec,
                  !.hasConfig = hasConfig,
                  !.refSampleDuration = [num |-> samplesPerFrame * meta0.timescale,
                                         den |-> misc.samplingRate]]

\* lines 745-887: the body of an AAC or MP3 tag; w holds the metadata
\* object meta0 of the audio track
ParseAudioBody(w, tag, meta0) ==
    IF tag.soundFormat = 10
    THEN IF tag.dataSize - 1 <= 1
         THEN w
         ELSE IF tag.packetType = 0
         THEN AACConfigParsed(w, AudioMetaOf(meta0, tag.misc[1], 1024, TRUE))
         ELSE IF tag.packetType = 1
         THEN PushAudioSample(w, [ dts |-> w.d.timestampBase + tag.timestamp,
                                   pts |-> w.d.timestampBase + tag.timestamp,
                                   length |-> tag.dataSize - 2 ])
         ELSE w
    ELSE IF tag.dataSize - 1 < 4
         THEN w
         ELSE IF meta0.codec = "" /\ tag.misc = Null
         THEN w
         ELSE PushAudioSample(
                  IF meta0.codec = ""
                  THEN MP3HeaderParsed(w, AudioMetaOf(meta0, tag.misc[1], 1152, meta0.hasConfig),
                                       tag.misc[1].bitRate)
                  ELSE w,
                  [ dts |-> w.d.timestampBase + tag.timestamp,
                    pts |-> w.d.timestampBase + tag.timestamp,
                    length |-> tag.dataSize - 1 ])

\* FLVDemuxer._parseAudioData; tag.misc is what _parseAACAudioSpecificConfig
\* or _parseMP3AudioData(requestHeader) reads from the body, Null where the
\* MP3 frame header is not recognised
ParseAudioData(w, tag) ==
    IF tag.dataSize <= 1
    THEN w
    ELSE IF w.d.hasAudioFlagOverrided /\ ~w.d.hasAudio
    THEN w
    ELSE IF tag.soundFormat /= 2 /\ tag.soundFormat /= 10
    THEN OnDemuxError(w, "CodecUnsupported")
    ELSE
      LET soundRate == <<5500, 11025, 22050, 44100, 48000>>[tag.soundRateIndex + 1]
          fresh == w.d.audioMetadata = Null
          meta0 == IF fresh
                   THEN [TrackMetadataNew("audio", w.d) EXCEPT
                           !.audioSampleRate = soundRate,
                           !.channelCount = IF tag.soundType = 0 THEN 1 ELSE 2]
                   ELSE w.d.audioMetadata[1]
      IN ParseAudioBody(
             [w EXCEPT
                !.d.hasAudio = IF fresh /\ ~w.d.hasAudio /\ ~w.d.hasAudioFlagOverrided
                               THEN TRUE ELSE @,
                !.d.mediaInfo.hasAudio =
                               IF fresh /\ ~w.d.hasAudio /\ ~w.d.hasAudioFlagOverrided
                               THEN Some(TRUE) ELSE @,
                !.d.audioMetadata = Some(meta0)],
             tag, meta0)

\* big-endian unsigned 32-bit value at 0-based offset of a byte sequence
ReadU32(data, offset) ==
    ((data[offset + 1] * 256 + data[offset + 2]) * 256 + data[offset + 3]) * 256
    + data[offset + 4]

\* the loop of _parseAVCVideoData, lines 1432-1461, from offset on; acc is
\* [units, length, keyframe, nalus], the result has dropped = TRUE where the
\* code returns without a sample; nalus holds, for the data of every unit,
\* where its view begins in the tag body and how many bytes it covers, and
\* the chunk is taken to hold the bytes that the view covers
RECURSIVE ParseNalus(_, _, _, _)
ParseNalus(data, offset, lengthSize, acc) ==
    IF offset >= Len(data) \/ offset + 4 >= Len(data)
    THEN [acc EXCEPT !.dropped = FALSE]
    ELSE LET raw == ReadU32(data, offset)
             naluSize == IF lengthSize = 3 THEN raw \div 256 ELSE raw
         IN IF naluSize > Len(data) - lengthSize
            THEN [acc EXCEPT !.dropped = TRUE]
            ELSE LET unitType == data[offset + lengthSize + 1] % 32
                 IN ParseNalus(data, offset + lengthSize + naluSize, lengthSize,
                               [ units |-> acc.units + 1,
                                 length |-> acc.length + lengthSize + naluSize,
                                 keyframe |-> acc.keyframe \/ unitType = 5,
                                 nalus |-> Append(acc.nalus,
                                                  [ byteOffset |-> offset,
                                                    byteLength |-> lengthSize + naluSize,
                                                    dataSize |-> Len(data) ]),
                                 dropped |-> FALSE ])

\* FLVDemuxer._parseAVCVideoData on the bytes that follow the AVC packet header
ParseAVCVideoData(w, data, tagTimestamp, tagPosition, frameType, cts) ==
    LET dts == w.d.timestampBase + tagTimestamp
        res == ParseNalus(data, 0, w.d.naluLengthSize,
                          [units |-> 0, length |-> 0, keyframe |-> frameType = 1,
                           nalus |-> <<>>, dropped |-> FALSE])
        avcSample == [ units |-> res.units, length |-> res.length,
                       isKeyframe |-> res.keyframe, dts |-> dts, cts |-> cts,
                       pts |-> dts + cts,
                       fileposition |-> IF res.keyframe THEN Some(tagPosition) ELSE Null ]
    IN IF res.dropped \/ res.units = 0
       THEN w
       ELSE [w EXCEPT !.v.samples = Append(@, avcSample),
                      !.v.length = @ + res.length,
                      !.h.pushed["video"] = Append(@, dts),
                      !.h.nalus = @ \o res.nalus]

\* lines 1305-1365: the first SPS is parsed into the metadata and into the
\* MediaInfo, which is emitted if complete
SPSParsed(w, sps, frameRate) ==
    NotifyIfComplete(
        [w EXCEPT
           !.d.videoMetadata[1].codec = sps.codec,
           !.d.videoMetadata[1].refSampleDuration =
               [num |-> w.d.videoMetadata[1].timescale * frameRate.fps_den,
                den |-> frameRate.fps_num],
           !.d.mediaInfo =
               [@ EXCEPT
                  !.width = Some(sps.width), !.height = Some(sps.height),
                  !.fps = Some([num |-> frameRate.fps_num, den |-> frameRate.fps_den]),
                  !.profile = Some(sps.profile), !.level = Some(sps.level),
                  !.refFrames = Some(sps.ref_frames),
                  !.chromaFormat = Some(sps.chroma_format),
                  !.sarNum = Some(sps.sar_width), !.sarDen = Some(sps.sar_height),
                  !.videoCodec = Some(sps.codec),
                  !.mimeType = VideoMimeType([w.d.mediaInfo EXCEPT
                                                !.videoCodec = Some(sps.codec)])]])

\* lines 1388-1405: the record is complete, the video metadata is dispatched
AVCConfigParsed(w) ==
    OnTrackMetadataReceived([w EXCEPT !.d.dispatch = FALSE], "video", w.d.videoMetadata[1])

\* lines 1277-1405: the record after its version has been accepted; w holds
\* the naluLengthSize read from the record
ParseAVCRecordBody(w, rec) ==
    IF w.d.naluLengthSize /= 3 /\ w.d.naluLengthSize /= 4
    THEN OnDemuxError(w, "FormatError")
    ELSE IF rec.spsCount = 0
    THEN OnDemuxError(w, "FormatError")
    ELSE IF rec.ppsCount = 0
    THEN OnDemuxError(
             SPSParsed(w, rec.sps,
                       IF ~rec.sps.frame_rate.fixed \/ rec.sps.frame_rate.fps_num = 0
                          \/ rec.sps.frame_rate.fps_den = 0
                       THEN w.d.referenceFrameRate ELSE rec.sps.frame_rate),
             "FormatError")
    ELSE AVCConfigParsed(
             DispatchBeforeMetadata(
                 [SPSParsed(w, rec.sps,
                            IF ~rec.sps.frame_rate.fixed \/ rec.sps.frame_rate.fps_num = 0
                               \/ rec.sps.frame_rate.fps_den = 0
                            THEN w.d.referenceFrameRate ELSE rec.sps.frame_rate)
                     EXCEPT !.d.videoMetadata[1].hasConfig = TRUE],
                 "video"))

\* FLVDemuxer._parseAVCDecoderConfigurationRecord; rec holds the fields of
\* the record and rec.sps what SPSParser.parseSPS reads from its first SPS
ParseAVCDecoderConfigurationRecord(w, rec, dataSize) ==
    IF dataSize < 7
    THEN w
    ELSE
      LET fresh == w.d.videoMetadata = Null
          w0 == [w EXCEPT
                   !.d.hasVideo = IF fresh /\ ~w.d.hasVideo /\ ~w.d.hasVideoFlagOverrided
                                  THEN TRUE ELSE @,
                   !.d.mediaInfo.hasVideo =
                                  IF fresh /\ ~w.d.hasVideo /\ ~w.d.hasVideoFlagOverrided
                                  THEN Some(TRUE) ELSE @,
                   !.d.videoMetadata = IF fresh
                                       THEN Some(TrackMetadataNew("video", w.d)) ELSE @]
      IN IF rec.version /= 1 \/ rec.avcProfile = 0
         THEN OnDemuxError(w0, "FormatError")
         ELSE ParseAVCRecordBody(
                  [w0 EXCEPT !.d.naluLengthSize = (rec.lengthSizeMinusOne % 4) + 1], rec)

\* FLVDemuxer._parseVideoData and _parseAVCVideoPacket
ParseVideoData(w, tag) ==
    IF tag.dataSize <= 1
    THEN w
    ELSE IF w.d.hasVideoFlagOverrided /\ ~w.d.hasVideo
    THEN w
    ELSE IF tag.codecId /= 7
    THEN OnDemuxError(w, "CodecUnsupported")
    ELSE IF tag.dataSize - 1 < 4
    THEN w
    ELSE IF tag.packetType = 0
    THEN ParseAVCDecoderConfigurationRecord(w, tag.avcc, tag.dataSize - 5)
    ELSE IF tag.packetType = 1
    THEN ParseAVCVideoData(w, tag.data, tag.timestamp, tag.position, tag.frameType, tag.cts)
    ELSE IF tag.packetType = 2
    THEN w
    ELSE OnDemuxError(w, "FormatError")

\* the bytes of a tag: 11-byte header, body and 4-byte PreviousTagSize
TagLength(tag) == 11 + tag.dataSize + 4

\* lines 473-504: a complete tag is skipped or handed to the parser of its
\* type
ParseTag(w, tag) ==
    CASE tag.tagType = 8 -> ParseAudioData(w, tag)
      [] tag.tagType = 9 -> ParseVideoData(w, tag)
      [] tag.tagType = 18 -> ParseScriptData(w, tag)
      [] OTHER -> w

\* lines 448-462: the loop leaves at a tag that is not whole in the chunk
LeaveLoop(w, offset) ==
    [w EXCEPT !.d.dispatch = TRUE, !.h.ret = Some(offset)]

\* the loop of parseChunks, lines 448-520: tag i of the chunk starts at
\* offset
RECURSIVE ParseTags(_, _, _, _)
ParseTags(w, chunk, i, offset) ==
    IF offset >= chunk.byteLength
    THEN [w EXCEPT !.h.ret = Some(offset)]
    ELSE IF offset + 11 + 4 > chunk.byteLength
    THEN LeaveLoop(w, offset)
    ELSE IF offset + TagLength(chunk.tags[i]) > chunk.byteLength
    THEN LeaveLoop(w, offset)
    ELSE ParseTags(ParseTag([w EXCEPT !.d.dispatch = TRUE, !.h.processed = Append(@, i)],
                            chunk.tags[i]),
                   chunk, i + 1, offset + TagLength(chunk.tags[i]))

\* lines 522-529: the parsed frames are handed to the remuxer
DispatchFrames(w) ==
    IF /\ IsInitialMetadataDispatched(w.d)
       /\ w.d.dispatch
       /\ (w.a.length /= 0 \/ w.v.length /= 0)
    THEN OnDataAvailable(w)
    ELSE w

\* lines 433-446: the first parse reads the four bytes of PreviousTagSize0
\* at offset; new DataView and getUint32 throw a RangeError when the chunk
\* does not hold them
FirstParse(w, chunk, offset) ==
    IF offset + 4 > chunk.byteLength
    THEN [w EXCEPT !.d.firstParse = FALSE,
                   !.h.ret = Null,
                   !.e = Append(@, [ev |-> "exception", name |-> "RangeError"])]
    ELSE DispatchFrames(ParseTags([w EXCEPT !.d.firstParse = FALSE], chunk, 1, offset + 4))

\* lines 420-431 for a chunk with byteStart 0 and more than 13 bytes whose
\* probe does not match: offset is undefined, the first parse reads
\* PreviousTagSize0 at 0, the loop is not entered and NaN (undefined when
\* it is not the first parse) is returned
ParseUnprobed(w) ==
    DispatchFrames([w EXCEPT !.d.firstParse = FALSE,
                             !.h.ret = Null,
                             !.e = Append(@, [ev |-> "returned", value |-> "NaN"])])

\* parseChunks from line 433 on, with the offset the header left
ParseFrom(w, chunk, offset) ==
    IF w.d.firstParse
    THEN FirstParse(w, chunk, offset)
    ELSE DispatchFrames(ParseTags(w, chunk, 1, offset))

\* FLVDemuxer.parseChunks(chunk, byteStart): chunk.head are the first bytes
\* of the chunk and chunk.tags the tags that follow the bytes the call
\* skips, the last of them possibly cut by the end of the chunk
ParseChunks(w, chunk) ==
    IF chunk.byteStart /= 0
    THEN ParseFrom(w, chunk, 0)
    ELSE IF chunk.byteLength <= 13
    THEN [w EXCEPT !.h.ret = Some(0)]
    ELSE IF Probe(chunk.head).match
    THEN ParseFrom(w, chunk, Probe(chunk.head).dataOffset)
    ELSE ParseUnprobed(w)

(***************************************************************************)
(* Inputs of the demuxer and of the remuxer                                *)
(***************************************************************************)
\* what the remuxer's constructor finds: config.isLive,
\* config.fixAudioTimestampGap and the browser
RemuxEnvs ==
    { [ isLive |-> FALSE, fixAudioTimestampGap |-> TRUE, forceFirstIDR |-> FALSE,
        fillSilentAfterSeek |-> FALSE, mp3UseMpegAudio |-> TRUE, safari |-> FALSE ],
      [ isLive |-> FALSE, fixAudioTimestampGap |-> TRUE, forceFirstIDR |-> FALSE,
        fillSilentAfterSeek |-> TRUE, mp3UseMpegAudio |-> TRUE, safari |-> FALSE ],
      [ isLive |-> TRUE, fixAudioTimestampGap |-> FALSE, forceFirstIDR |-> TRUE,
        fillSilentAfterSeek |-> FALSE, mp3UseMpegAudio |-> FALSE, safari |-> FALSE ] }

DefaultEnv ==
    [ isLive |-> FALSE, fixAudioTimestampGap |-> TRUE, forceFirstIDR |-> FALSE,
      fillSilentAfterSeek |-> FALSE, mp3UseMpegAudio |-> TRUE, safari |-> FALSE ]

\* what FLVDemuxer.probe reads from an FLV header with the two flags
ProbeData(hasAudio, hasVideo) ==
    [dataOffset |-> 9, hasAudioTrack |-> hasAudio, hasVideoTrack |-> hasVideo]

\* AudioSpecificConfig of a 44.1 kHz stereo AAC-LC stream as parsed outside
\* Firefox and Android, and the header of a 44.1 kHz stereo MP3 frame
AacMisc == [samplingRate |-> 44100, channelCount |-> 2, codec |-> "mp4a.40.5",
            originalCodec |-> "mp4a.40.2"]
Mp3Misc == [samplingRate |-> 44100, channelCount |-> 2, codec |-> "mp3",
            originalCodec |-> "mp3", bitRate |-> 128]

\* the same AAC stream at 32 kHz: a frame of 1024 samples lasts 32 ms
AacMisc32k == [AacMisc EXCEPT !.samplingRate = 32000]

\* the first SPS of a 640x360 baseline stream with a fixed rate of 25 fps
SpsConfig ==
    [ width |-> 640, height |-> 360, profile |-> "Baseline", level |-> "3.1",
      ref_frames |-> 1, chroma_format |-> "4:2:0", sar_width |-> 1, sar_height |-> 1,
      frame_rate |-> [fixed |-> TRUE, fps_num |-> 25000, fps_den |-> 1000],
      codec |-> "avc1.42001f" ]

\* track metadata as the demuxer hands it to onTrackMetadata
AudioMetadata(misc, samplesPerFrame) ==
    [ type |-> "audio", timescale |-> 1000, duration |-> 0,
      codec |-> misc.codec, originalCodec |-> misc.originalCodec, hasConfig |-> TRUE,
      audioSampleRate |-> misc.samplingRate, channelCount |-> misc.channelCount,
      refSampleDuration |-> [num |-> samplesPerFrame * 1000, den |-> misc.samplingRate] ]

VideoMetadata ==
    [ type |-> "video", timescale |-> 1000, duration |-> 0,
      codec |-> SpsConfig.codec, originalCodec |-> "", hasConfig |-> TRUE,
      audioSampleRate |-> 0, channelCount |-> 0,
      refSampleDuration |-> [num |-> 1000 * 1000, den |-> 25000] ]

MetadataChoices(type) ==
    IF type = "audio"
    THEN {AudioMetadata(AacMisc, 1024), AudioMetadata(AacMisc32k, 1024),
          AudioMetadata(Mp3Misc, 1152)}
    ELSE {VideoMetadata}

\* milliseconds between the samples the producer appends, and the jumps of
\* the timestamps between two batches
AudioStep == 23
VideoStep == 40
DtsJumps == {0, 100, -200}
BatchSizes == 0..2

\* n audio samples that follow the timestamp from
RECURSIVE AudioSamples(_, _)
AudioSamples(from, n) ==
    IF n = 0
    THEN <<>>
    ELSE <<[dts |-> from, pts |-> from, length |-> 10]>> \o AudioSamples(from + AudioStep, n - 1)

\* n video samples that follow the timestamp from, the first one a keyframe
\* if key
RECURSIVE VideoSamples(_, _, _)
VideoSamples(from, n, key) ==
    IF n = 0
    THEN <<>>
    ELSE <<[ units |-> 1, length |-> 20, isKeyframe |-> key, dts |-> from, cts |-> 0,
             pts |-> from, fileposition |-> IF key THEN Some(from * 100) ELSE Null ]>>
         \o VideoSamples(from + VideoStep, n - 1, FALSE)

\* the producer's part of a batch: samples are pushed on the track
PushSamples(track, samples) ==
    [track EXCEPT !.samples = @ \o samples, !.length = @ + SamplesLength(samples)]

\* an AVCDecoderConfigurationRecord with one SPS and ppsCount PPS
AvccRecord(ppsCount) ==
    [ version |-> 1, avcProfile |-> 66, lengthSizeMinusOne |-> 255,
      spsCount |-> 1, ppsCount |-> ppsCount, sps |-> SpsConfig ]

\* the AMF object of an onMetaData script tag that carries no track flags
\* and no keyframes index
OnMetaDataObject ==
    [ hasAudio |-> Null, hasVideo |-> Null, audiodatarate |-> Some(128),
      videodatarate |-> Some(500), width |-> Some(640), height |-> Some(360),
      duration |-> Some([num |-> 10, den |-> 1]),
      framerate |-> Some([num |-> 25, den |-> 1]), keyframes |-> Null ]

TagKinds ==
    { "script", "aacConfig", "aacFrame", "mp3Frame", "avcConfig", "avcConfigNoPps",
      "avcKey", "avcInter", "reserved" }

\* the fields parseChunks and the tag parsers read from a tag of the kind
Tag(kind, timestamp, position) ==
    LET audio == [ tagType |-> 8, timestamp |-> timestamp, position |-> position,
                   soundFormat |-> 10, soundRateIndex |-> 3, soundType |-> 1,
                   packetType |-> 1, misc |-> Null, dataSize |-> 12 ]
        video == [ tagType |-> 9, timestamp |-> timestamp, position |-> position,
                   codecId |-> 7, packetType |-> 1, frameType |-> 2, cts |-> 0,
                   avcc |-> AvccRecord(1), data |-> <<>>, dataSize |-> 11 ]
    IN CASE kind = "script" ->
              [ tagType |-> 18, timestamp |-> timestamp, position |-> position,
                hasOnMetaData |-> TRUE, onMetaData |-> Some(OnMetaDataObject),
                dataSize |-> 30 ]
         [] kind = "aacConfig" ->
              [audio EXCEPT !.packetType = 0, !.misc = Some(AacMisc), !.dataSize = 4]
         [] kind = "aacFrame" -> audio
         [] kind = "mp3Frame" ->
              [audio EXCEPT !.soundFormat = 2, !.misc = Some(Mp3Misc)]
         [] kind = "avcConfig" ->
              [video EXCEPT !.packetType = 0, !.frameType = 1, !.dataSize = 40]
         [] kind = "avcConfigNoPps" ->
              [video EXCEPT !.packetType = 0, !.frameType = 1, !.dataSize = 40,
                            !.avcc = AvccRecord(0)]
         [] kind = "avcKey" ->
              [video EXCEPT !.frameType = 1, !.data = <<0, 0, 0, 2, 101, 0>>]
         [] kind = "avcInter" ->
              [video EXCEPT !.data = <<0, 0, 0, 2, 65, 0>>]
         [] OTHER ->
              [ tagType |-> 15, timestamp |-> timestamp, position |-> position,
                dataSize |-> 5 ]

\* milliseconds between the timestamps of two tags of the stream
TagStep == 20

\* the tags of a chunk: the kinds in order, stamped from the clock on
Tags(kinds, clock) ==
    [i \in 1..Len(kinds) |-> Tag(kinds[i], clock + (i - 1) * TagStep, 100 * clock + i)]

\* the tags of the chunks: at most MaxTagsPerChunk tags
Chunks == UNION { [1..n -> TagKinds] : n \in 0..MaxTagsPerChunk }

\* the nine bytes of an FLV header with the two flags
FlvHeader(hasAudio, hasVideo) ==
    <<70, 76, 86, 1, (IF hasAudio THEN 4 ELSE 0) + (IF hasVideo THEN 1 ELSE 0), 0, 0, 0, 9>>

\* where the source starts to be read: at its FLV header or inside
SessionStarts == {0, 1000}

\* the bytes before the first tag of a chunk: the FLV header and
\* PreviousTagSize0 at the start of the source, the PreviousTagSize before
\* the first tag in the first chunk of a source read from inside
TagsStart(byteStart, firstParse) ==
    IF byteStart = 0 THEN 13 ELSE IF firstParse THEN 4 ELSE 0

\* the bytes of the first n tags
RECURSIVE TagsLength(_, _)
TagsLength(tags, n) == IF n = 0 THEN 0 ELSE TagsLength(tags, n - 1) + TagLength(tags[n])

\* where the end of the chunk falls: after the last tag, one byte before,
\* after the first fifteen bytes of the last tag or after its first byte;
\* a chunk without tags ends with the bytes before the first tag or is a
\* single byte
Cuts == {"whole", "short", "header", "begin"}

ChunkLength(start, tags, cut) ==
    IF tags = <<>>
    THEN IF cut = "whole" /\ start > 0 THEN start ELSE 1
    ELSE CASE cut = "whole" -> start + TagsLength(tags, Len(tags))
           [] cut = "short" -> start + TagsLength(tags, Len(tags)) - 1
           [] cut = "header" -> start + TagsLength(tags, Len(tags) - 1) + 15
           [] OTHER -> start + TagsLength(tags, Len(tags) - 1) + 1

\* the chunk the IOController hands over at byteStart
Chunk(byteStart, start, tags, cut, header) ==
    [ byteStart |-> byteStart,
      byteLength |-> ChunkLength(start, tags, cut),
      head |-> IF byteStart = 0 THEN SubSeq(header, 1, Min(9, ChunkLength(start, tags, cut)))
               ELSE <<>>,
      tags |-> tags ]

\* the number of tags that lie whole in the first byteLength bytes
RECURSIVE CompleteTags(_, _, _, _)
CompleteTags(tags, n, start, byteLength) ==
    IF n < Len(tags) /\ start + TagsLength(tags, n + 1) <= byteLength
    THEN CompleteTags(tags, n + 1, start, byteLength)
    ELSE n

\* what the properties keep of a call: the chunk, whether it was the first
\* parse, the number of whole tags and the offset of the first tag that is
\* not whole
CallOf(chunk, start, firstParse) ==
    [ byteStart |-> chunk.byteStart,
      byteLength |-> chunk.byteLength,
      firstParse |-> firstParse,
      whole |-> CompleteTags(chunk.tags, 0, start, chunk.byteLength),
      next |-> start + TagsLength(chunk.tags, CompleteTags(chunk.tags, 0, start, chunk.byteLength)) ]

(***************************************************************************)
(* FlvPlayer                                                               *)
(***************************************************************************)
\* the options of the player's config that its handlers read
PlayerConfigs ==
    [ lazyLoad : BOOLEAN, isLive : {FALSE}, deferLoadAfterSourceOpen : BOOLEAN,
      lazyLoadMaxDuration : {2}, lazyLoadRecoverDuration : {1} ]

\* the config of a player that loads lazily once the source is open
LazyConfig ==
    [ lazyLoad |-> TRUE, isLive |-> FALSE, deferLoadAfterSourceOpen |-> TRUE,
      lazyLoadMaxDuration |-> 2, lazyLoadRecoverDuration |-> 1 ]

\* FlvPlayer.constructor; mediaElement, msectl and emitter tell whether the
\* player holds the object, transmuxer is Null or what the player has asked
\* of its Transmuxer
FlvPlayerNew(config) ==
    [ config |-> config, emitter |-> TRUE, progressChecker |-> Null,
      mediaElement |-> FALSE, msectl |-> FALSE, transmuxer |-> Null,
      mseSourceOpened |-> FALSE, hasPendingLoad |-> FALSE ]

\* the window's interval timers, whether the media source of the attached
\* element has opened, and the element's currentTime and buffered range
\* [0, bufferedEnd), in seconds
BrowserNew ==
    [ intervals |-> {}, nextId |-> 1, sourceOpen |-> FALSE,
      currentTime |-> 0, bufferedEnd |-> 0 ]

\* what the properties keep of the player's run: the last handler and the
\* exception it threw
PlayerHistNew == [ lastOp |-> "new", thrown |-> Null, resumes |-> 0 ]

\* a handler ends with an exception
PlayerThrow(w, what) == [w EXCEPT !.h.thrown = Some(what)]

\* window.clearInterval(id)
ClearInterval(b, id) ==
    IF id = Null THEN b ELSE [b EXCEPT !.intervals = @ \ {id[1]}]

\* FlvPlayer._suspendTransmuxer
SuspendTransmuxer(w) ==
    IF w.p.transmuxer /= Null
    THEN LET w1 == [w EXCEPT !.p.transmuxer = Some([paused |-> TRUE])]
         IN IF w1.p.progressChecker = Null
            THEN [w1 EXCEPT !.p.progressChecker = Some(w.b.nextId),
                            !.b.intervals = @ \cup {w.b.nextId},
                            !.b.nextId = @ + 1]
            ELSE w1
    ELSE w

\* lines 541-555: whether the playback position is within
\* lazyLoadRecoverDuration of the end of the buffered range it is in
NeedResume(config, b) ==
    /\ b.bufferedEnd > 0
    /\ b.currentTime >= 0
    /\ b.currentTime < b.bufferedEnd
    /\ b.currentTime >= b.bufferedEnd - config.lazyLoadRecoverDuration

\* FlvPlayer._checkProgressAndResume
CheckProgressAndResume(w) ==
    IF ~w.p.mediaElement
    THEN PlayerThrow(w, "TypeError: currentTime of null")
    ELSE IF NeedResume(w.p.config, w.b)
         THEN LET w1 == [w EXCEPT !.b = ClearInterval(@, w.p.progressChecker),
                                  !.p.progressChecker = Null]
              IN IF w1.p.transmuxer = Null
                 THEN PlayerThrow(w1, "TypeError: resume of null")
                 ELSE [w1 EXCEPT !.p.transmuxer = Some([paused |-> FALSE]),
                                 !.h.resumes = @ + 1]
         ELSE w

\* FlvPlayer.load
PlayerLoad(w) ==
    IF ~w.p.mediaElement
    THEN PlayerThrow(w, "IllegalStateException")
    ELSE IF w.p.transmuxer /= Null
         THEN PlayerThrow(w, "IllegalStateException")
         ELSE IF w.p.hasPendingLoad
              THEN w
              ELSE IF w.p.config.deferLoadAfterSourceOpen /\ ~w.p.mseSourceOpened
                   THEN [w EXCEPT !.p.hasPendingLoad = TRUE]
                   ELSE [w EXCEPT !.p.transmuxer = Some([paused |-> FALSE])]

\* FlvPlayer.unload
PlayerUnload(w) ==
    IF w.p.transmuxer /= Null THEN [w EXCEPT !.p.transmuxer = Null] ELSE w

\* FlvPlayer.attachMediaElement
AttachMediaElement(w) ==
    [w EXCEPT !.p.mediaElement = TRUE, !.p.msectl = TRUE]

\* FlvPlayer.detachMediaElement; the element shows no buffered range once
\* its media source is gone
DetachMediaElement(w) ==
    [w EXCEPT !.p.mediaElement = FALSE, !.p.msectl = FALSE,
              !.b.sourceOpen = FALSE, !.b.currentTime = 0, !.b.bufferedEnd = 0]

\* FlvPlayer.destroy
PlayerDestroy(w) ==
    LET w1 == IF w.p.progressChecker /= Null
              THEN [w EXCEPT !.b = ClearInterval(@, w.p.progressChecker),
                             !.p.progressChecker = Null]
              ELSE w
        w2 == IF w1.p.transmuxer /= Null THEN PlayerUnload(w1) ELSE w1
        w3 == IF w2.p.mediaElement THEN DetachMediaElement(w2) ELSE w2
    IN [w3 EXCEPT !.p.emitter = FALSE]

\* the listener of MSEEvents.SOURCE_OPEN, lines 187-195
OnSourceOpen(w) ==
    LET w1 == [w EXCEPT !.p.mseSourceOpened = TRUE, !.b.sourceOpen = TRUE]
    IN IF w1.p.hasPendingLoad
       THEN PlayerLoad([w1 EXCEPT !.p.hasPendingLoad = FALSE])
       ELSE w1

\* the listener of TransmuxingEvents.MEDIA_SEGMENT, lines 274-289, for a
\* segment that ends at endDts milliseconds; the source buffer then holds
\* the media up to there
OnTransmuxerMediaSegment(w, endDts) ==
    LET w1 == [w EXCEPT !.b.bufferedEnd = IF endDts \div 1000 > @ THEN endDts \div 1000 ELSE @]
    IN IF ~w.p.msectl
       THEN PlayerThrow(w, "TypeError: appendMediaSegment of null")
       ELSE IF w.p.config.lazyLoad /\ ~w.p.config.isLive
            THEN IF /\ endDts >= (w.b.currentTime + w.p.config.lazyLoadMaxDuration) * 1000
                    /\ w.p.progressChecker = Null
                 THEN SuspendTransmuxer(w1)
                 ELSE w1
            ELSE w1

\* FlvPlayer._onmseUpdateEnd
OnMseUpdateEnd(w) ==
    IF ~w.p.config.lazyLoad \/ w.p.config.isLive
    THEN w
    ELSE LET inRange == 0 <= w.b.currentTime /\ w.b.currentTime < w.b.bufferedEnd
             currentRangeEnd == IF inRange THEN w.b.bufferedEnd ELSE 0
         IN IF /\ currentRangeEnd >= w.b.currentTime + w.p.config.lazyLoadMaxDuration
               /\ w.p.progressChecker = Null
            THEN SuspendTransmuxer(w)
            ELSE w

\* FlvPlayer._onmseBufferFull
OnMseBufferFull(w) ==
    IF w.p.progressChecker = Null THEN SuspendTransmuxer(w) ELSE w

(***************************************************************************)
(* IOController: the state machine                                         *)
(***************************************************************************)
\* the world a handler starts in; what pause() remembered of the state
\* before it is kept while the controller is paused
IOWorld ==
    World(ioctl, loader,
          [iohist EXCEPT !.wasReconnecting = ioctl.isEarlyEofReconnecting,
                         !.preStashUsed = ioctl.stashUsed,
                         !.prePos = loader.pos,
                         !.preStashByteStart = IF ioctl.paused THEN @ ELSE 0,
                         !.preRange = IF ioctl.paused THEN @ ELSE [from |-> 0, to |-> -1],
                         !.preNext = IF ioctl.paused THEN @ ELSE 0,
                         !.lastErrorType = "",
                         !.KBps = 0,
                         !.preSpeedNormalized = 0])

\* the state a handler leaves
IOCommit(w, op) ==
    /\ ioctl' = w.c
    /\ loader' = w.l
    /\ iohist' = [w.h EXCEPT !.lastOp = op]
    /\ ioEvents' = w.e
    /\ UNCHANGED <<muxvars, probevars, idrvars, playervars>>

\* the absolute offset of the first byte the consumer has not absorbed
FirstUnabsorbed ==
    IF iohist.absorbed /= <<>>
    THEN iohist.absorbed[Len(iohist.absorbed)].off + iohist.absorbed[Len(iohist.absorbed)].len
    ELSE IF iohist.received /= <<>> THEN iohist.received[1].off ELSE loader.from

\* the world an operation of the owner starts in: the stash position, the
\* range and the consumer's position before the call are remembered
OwnerWorld ==
    [IOWorld EXCEPT !.h.controlOps = @ + 1,
                    !.h.preStashByteStart = ioctl.stashByteStart,
                    !.h.preRange = ioctl.currentRange,
                    !.h.preNext = FirstUnabsorbed]

\* a new session begins for the consumer: open, seek and resume
NewRange(w) ==
    [w EXCEPT !.h.received = <<>>, !.h.absorbed = <<>>]

\* the IOController before it is opened
IOIdle ==
    /\ ioctl = IOControllerNew(FileLen, TRUE, FALSE)
    /\ loader = LoaderNew
    /\ iohist = IOHistNew
    /\ ioEvents = <<>>

\* the demuxer, its tracks and the remuxer after construction
MuxIdle ==
    /\ remuxer = MP4RemuxerNew(DefaultEnv)
    /\ audioTrack = TrackNew
    /\ videoTrack = TrackNew
    /\ demuxer = FLVDemuxerNew(ProbeData(TRUE, TRUE))
    /\ muxhist = MuxHistNew
    /\ muxEvents = <<>>

\* no buffer has been handed to probe
ProbeIdle == probed = [buffer |-> <<>>, result |-> Null]

\* no IDRSampleList is in use
IDRIdle ==
    /\ idrSampleList = IDRSampleListNew
    /\ idrhist = IDRHistNew

\* a player that nothing has been asked of
PlayerIdle ==
    /\ player = FlvPlayerNew(LazyConfig)
    /\ browser = BrowserNew
    /\ playerhist = PlayerHistNew

IOInit ==
    /\ ProbeIdle
    /\ IDRIdle
    /\ PlayerIdle
    /\ \E cfg \in IOConfigs, es \in BOOLEAN :
          ioctl = IOControllerNew(cfg.filesize, es, cfg.isLive)
    /\ loader = LoaderNew
    /\ iohist = IOHistNew
    /\ ioEvents = <<>>
    /\ MuxIdle

Open ==
    /\ loader.status = kIdle
    /\ \E from \in SeekTargets : IOCommit(NewRange(IOOpen(IOWorld, from)), "open")

ContentLengthKnown ==
    /\ loader.status = kConnecting
    /\ ioctl.fullRequestFlag
    /\ IOCommit([IOWorld EXCEPT !.c = OnContentLengthKnown(@, FileLen - loader.from)],
                "contentLength")

ChunkArrival ==
    /\ LoaderIsWorking(loader)
    /\ iohist.arrivals < MaxArrivals
    /\ \E byteLength \in ChunkSizes, KBps \in SpeedChoices, mode \in ConsumeModes :
          /\ loader.pos + byteLength <= FileLen
          /\ IOCommit(OnLoaderChunkArrival([IOWorld EXCEPT !.h.arrivals = @ + 1],
                                           byteLength, KBps, mode), "arrival")

LoaderComplete ==
    /\ LoaderIsWorking(loader)
    /\ \E mode \in ConsumeModes : IOCommit(OnLoaderComplete(IOWorld, mode), "complete")

LoaderError ==
    /\ LoaderIsWorking(loader)
    /\ iohist.errors < MaxErrors
    /\ \E type \in LoaderErrorTypes, mode1 \in ConsumeModes, mode2 \in ConsumeModes :
          IOCommit(OnLoaderError([IOWorld EXCEPT !.h.errors = @ + 1, !.h.lastErrorType = type],
                                 type, mode1, mode2), "error")

Pause ==
    /\ IsWorking(IOWorld)
    /\ iohist.controlOps < MaxControlOps
    /\ IOCommit(IOPause(OwnerWorld), "pause")

Resume ==
    /\ ioctl.paused
    /\ \E mode \in ConsumeModes : IOCommit(NewRange(IOResume(IOWorld, mode)), "resume")

Seek ==
    /\ loader.status /= kIdle
    /\ iohist.controlOps < MaxControlOps
    /\ \E bytes \in SeekTargets, mode \in ConsumeModes :
          IOCommit(NewRange(IOSeek(OwnerWorld, bytes, mode)), "seek")

IONext ==
    \/ Open
    \/ ContentLengthKnown
    \/ ChunkArrival
    \/ LoaderComplete
    \/ LoaderError
    \/ Pause
    \/ Resume
    \/ Seek

SpecIO == IOInit /\ [][IONext]_vars

(***************************************************************************)
(* IOController: sessions that exercise the sizing of the stash            *)
(***************************************************************************)
\* arrivals with a recorded speed reading in one run
MaxSpeedArrivals == 2
\* speed sampler readings (KB/s): none yet, below the ladder, on and
\* between its values, and above it
SpeedReadings == {0, 30, 64, 100, 511, 512, 700, 1024, 1100, 4096, 5000}
\* config.stashInitialSize: not given, not positive, and a size between
\* 2 MiB and the initial capacity of the buffer
StashInitialSizes == {Null, Some(0), Some(1024 * 2560)}

StashInit ==
    /\ ProbeIdle
    /\ IDRIdle
    /\ PlayerIdle
    /\ \E isLive \in BOOLEAN, initial \in StashInitialSizes :
          ioctl = IOControllerWith(IF isLive THEN 0 ELSE FileLen, TRUE, isLive, initial)
    /\ loader = LoaderNew
    /\ iohist = IOHistNew
    /\ ioEvents = <<>>
    /\ MuxIdle

\* a chunk arrives while the speed sampler reads KBps
SpeedArrival ==
    /\ LoaderIsWorking(loader)
    /\ iohist.arrivals < MaxSpeedArrivals
    /\ \E KBps \in SpeedReadings, mode \in {"half", "all"} :
          /\ loader.pos + 300000 <= FileLen
          /\ IOCommit(OnLoaderChunkArrival([IOWorld EXCEPT !.h.arrivals = @ + 1,
                                                           !.h.KBps = KBps,
                                                           !.h.preSpeedNormalized = ioctl.speedNormalized],
                                           300000, KBps, mode), "arrival")

\* the loader reports an early end of the stream
EarlyEof ==
    /\ LoaderIsWorking(loader)
    /\ iohist.errors < MaxErrors
    /\ IOCommit(OnLoaderError([IOWorld EXCEPT !.h.errors = @ + 1, !.h.lastErrorType = EARLY_EOF],
                              EARLY_EOF, "all", "all"), "error")

StashNext ==
    \/ Open
    \/ SpeedArrival
    \/ EarlyEof
    \/ Pause
    \/ Resume
    \/ Seek

SpecStash == StashInit /\ [][StashNext]_vars

(***************************************************************************)
(* The state machines of the remuxer and of the demuxer with its remuxer   *)
(***************************************************************************)
\* the world a handler starts in
MuxWorld ==
    [ r |-> remuxer, a |-> audioTrack, v |-> videoTrack, d |-> demuxer,
      h |-> [muxhist EXCEPT !.pre = [t \in TrackTypes |-> Null], !.dataCalls = <<>>,
                            !.firstDts = [t \in TrackTypes |-> Null],
                            !.pushed = [t \in TrackTypes |-> <<>>],
                            !.nalus = <<>>],
      e |-> <<>> ]

\* what the remuxer holds for a track type: the stashed sample, nextDts and
\* the segment-info list
Held(r, type) ==
    IF type = "audio"
    THEN [ stashed |-> r.audioStashedLastSample, nextDts |-> r.audioNextDts,
           list |-> r.audioSegmentInfoList ]
    ELSE [ stashed |-> r.videoStashedLastSample, nextDts |-> r.videoNextDts,
           list |-> r.videoSegmentInfoList ]

\* what the properties keep of a call of _remuxAudio or _remuxVideo whose
\* batch has at most one sample: the track and what the remuxer holds
BeforeCall(r, type, track) ==
    IF Len(track.samples) <= 1 THEN Some([track |-> track, held |-> Held(r, type)]) ELSE Null

\* the state a handler leaves
MuxCommit(w, op) ==
    /\ remuxer' = w.r
    /\ audioTrack' = w.a
    /\ videoTrack' = w.v
    /\ demuxer' = w.d
    /\ muxhist' = [w.h EXCEPT !.lastOp = op, !.calls = @ + 1]
    /\ muxEvents' = w.e
    /\ UNCHANGED <<iovars, probevars, idrvars, playervars>>

RemuxInit ==
    /\ IOIdle
    /\ ProbeIdle
    /\ IDRIdle
    /\ PlayerIdle
    /\ \E env \in RemuxEnvs : remuxer = MP4RemuxerNew(env)
    /\ audioTrack = TrackNew
    /\ videoTrack = TrackNew
    /\ demuxer = FLVDemuxerNew(ProbeData(TRUE, TRUE))
    /\ muxhist = MuxHistNew
    /\ muxEvents = <<>>

\* the producer reports the metadata of a track of one of the types
TrackMetadataOf(maxCalls, types) ==
    /\ muxhist.calls < maxCalls
    /\ \E type \in types :
          \E metadata \in MetadataChoices(type) :
             MuxCommit(OnTrackMetadataReceived(MuxWorld, type, metadata), "metadata")

\* the dts of the first sample of a track, if it has one
FirstDts(track) ==
    IF Len(track.samples) > 0 THEN Some(track.samples[1].dts) ELSE Null

\* the producer pushes a batch of samples on its tracks and calls remux;
\* the audio samples start lag milliseconds after the video samples
DataAvailableLagOf(maxCalls, audioSizes, videoSizes, jumps, lags) ==
    /\ muxhist.calls < maxCalls
    /\ \E na \in audioSizes, nv \in videoSizes, jump \in jumps, lag \in lags :
          LET from == muxhist.clock + jump
              a0 == PushSamples(audioTrack, AudioSamples(from + lag, na))
              v0 == PushSamples(videoTrack, VideoSamples(from, nv, TRUE))
              w0 == [MuxWorld EXCEPT
                       !.a = a0,
                       !.v = v0,
                       !.h.pre = [t \in TrackTypes |->
                                    BeforeCall(remuxer, t, IF t = "audio" THEN a0 ELSE v0)],
                       !.h.firstDts = [t \in TrackTypes |->
                                         FirstDts(IF t = "audio" THEN a0 ELSE v0)],
                       !.h.clock = from + 2 * VideoStep]
          IN /\ na + nv > 0
             /\ from >= 0
             /\ MuxCommit(Remux(w0), "remux")

\* the producer pushes a batch whose tracks start at the same timestamp
DataAvailableOf(maxCalls, audioSizes, videoSizes, jumps) ==
    DataAvailableLagOf(maxCalls, audioSizes, videoSizes, jumps, {0})

FlushStashedOf(maxCalls) ==
    /\ muxhist.calls < maxCalls
    /\ MuxCommit(FlushStashedSamples(MuxWorld), "flush")

RemuxSeekOf(maxCalls) ==
    /\ muxhist.calls < maxCalls
    /\ MuxCommit(RemuxerSeek(MuxWorld), "seek")

DiscontinuityOf(maxCalls) ==
    /\ muxhist.calls < maxCalls
    /\ MuxCommit(InsertDiscontinuity(MuxWorld), "discontinuity")

TrackMetadata == TrackMetadataOf(MaxCalls, TrackTypes)
DataAvailable == DataAvailableOf(MaxCalls, BatchSizes, BatchSizes, DtsJumps)
FlushStashed == FlushStashedOf(MaxCalls)
RemuxSeek == RemuxSeekOf(MaxCalls)
Discontinuity == DiscontinuityOf(MaxCalls)

RemuxNext ==
    \/ TrackMetadata
    \/ DataAvailable
    \/ FlushStashed
    \/ RemuxSeek
    \/ Discontinuity

SpecRemux == RemuxInit /\ [][RemuxNext]_vars

\* a longer session in which only the metadata of the audio track arrives:
\* batches of two audio samples and of one video sample, and an audio track
\* that starts before the first video sample
MaxLongCalls == 5
LongJumps == {0, 100, -103}

AudioTrackMetadata == TrackMetadataOf(MaxLongCalls, {"audio"})
LongDataAvailable == DataAvailableOf(MaxLongCalls, {0, 2}, {0, 1}, LongJumps)
LongFlushStashed == FlushStashedOf(MaxLongCalls)
LongRemuxSeek == RemuxSeekOf(MaxLongCalls)
LongDiscontinuity == DiscontinuityOf(MaxLongCalls)

RemuxLongNext ==
    \/ AudioTrackMetadata
    \/ LongDataAvailable
    \/ LongFlushStashed
    \/ LongRemuxSeek
    \/ LongDiscontinuity

SpecRemuxLong == RemuxInit /\ [][RemuxLongNext]_vars

\* a session in which the metadata of both tracks arrives and the stashed
\* samples are flushed, twice in a row as well
MaxFlushCalls == 5

FlushTrackMetadata == TrackMetadataOf(MaxFlushCalls, TrackTypes)
FlushDataAvailable == DataAvailableOf(MaxFlushCalls, {0, 2}, {2}, {0})
FlushFlushStashed == FlushStashedOf(MaxFlushCalls)
FlushRemuxSeek == RemuxSeekOf(MaxFlushCalls)
FlushDiscontinuity == DiscontinuityOf(MaxFlushCalls)

RemuxFlushNext ==
    \/ FlushTrackMetadata
    \/ FlushDataAvailable
    \/ FlushFlushStashed
    \/ FlushRemuxSeek
    \/ FlushDiscontinuity

SpecRemuxFlush == RemuxInit /\ [][RemuxFlushNext]_vars

\* a session with seeks and discontinuities in which the first batch starts
\* at a timestamp above 0, every batch leaves a gap to the one before and
\* the audio samples of a batch may start after its video samples
MaxLagCalls == 5
LagJumps == {100}
AudioLags == {0, 30}

LagTrackMetadata == TrackMetadataOf(MaxLagCalls, TrackTypes)
LagDataAvailable == DataAvailableLagOf(MaxLagCalls, {0, 2}, {0, 2}, LagJumps, AudioLags)
LagFlushStashed == FlushStashedOf(MaxLagCalls)
LagRemuxSeek == RemuxSeekOf(MaxLagCalls)
LagDiscontinuity == DiscontinuityOf(MaxLagCalls)

RemuxLagNext ==
    \/ LagTrackMetadata
    \/ LagDataAvailable
    \/ LagFlushStashed
    \/ LagRemuxSeek
    \/ LagDiscontinuity

SpecRemuxLag == RemuxInit /\ [][RemuxLagNext]_vars

\* a session in which a batch may start before the end of the samples
\* remuxed so far
MaxBackCalls == 5
BackJumps == {0, -70}

BackTrackMetadata == TrackMetadataOf(MaxBackCalls, TrackTypes)
BackDataAvailable == DataAvailableOf(MaxBackCalls, {0, 3}, {0, 3}, BackJumps)
BackFlushStashed == FlushStashedOf(MaxBackCalls)
BackRemuxSeek == RemuxSeekOf(MaxBackCalls)
BackDiscontinuity == DiscontinuityOf(MaxBackCalls)

RemuxBackNext ==
    \/ BackTrackMetadata
    \/ BackDataAvailable
    \/ BackFlushStashed
    \/ BackRemuxSeek
    \/ BackDiscontinuity

SpecRemuxBack == RemuxInit /\ [][RemuxBackNext]_vars

DemuxInit ==
    /\ IOIdle
    /\ ProbeIdle
    /\ IDRIdle
    /\ PlayerIdle
    /\ remuxer = MP4RemuxerNew(DefaultEnv)
    /\ audioTrack = TrackNew
    /\ videoTrack = TrackNew
    /\ \E hasAudio \in BOOLEAN, hasVideo \in BOOLEAN :
          demuxer = FLVDemuxerNew(ProbeData(hasAudio, hasVideo))
    /\ \E from \in SessionStarts : muxhist = [MuxHistNew EXCEPT !.byteStart = from]
    /\ muxEvents = <<>>

\* the state a call of parseChunks starts in, with what the properties keep
\* of the call
ChunkWorld(chunk, tags) ==
    [MuxWorld EXCEPT !.h.clock = @ + Len(tags) * TagStep,
                     !.h.processed = <<>>,
                     !.h.call = Some(CallOf(chunk, TagsStart(chunk.byteStart, demuxer.firstParse),
                                            demuxer.firstParse))]

\* the next chunk goes where the consumed bytes end
NextChunk(w) ==
    IF w.h.ret = Null THEN w ELSE [w EXCEPT !.h.byteStart = @ + w.h.ret[1]]

\* the IOController hands the next chunk of the stream to parseChunks; an
\* exception of parseChunks ends the session
ParseChunk ==
    /\ muxhist.calls < MaxChunks
    /\ \A i \in 1..Len(muxEvents) : muxEvents[i].ev /= "exception"
    /\ \E kinds \in Chunks, cut \in Cuts :
          LET tags == Tags(kinds, muxhist.clock)
              chunk == Chunk(muxhist.byteStart, TagsStart(muxhist.byteStart, demuxer.firstParse),
                             tags, cut, FlvHeader(demuxer.hasAudio, demuxer.hasVideo))
          IN MuxCommit(NextChunk(ParseChunks(ChunkWorld(chunk, tags), chunk)), "parseChunks")

DemuxNext == ParseChunk

SpecDemux == DemuxInit /\ [][DemuxNext]_vars

(***************************************************************************)
(* A remuxer that receives the track metadata the demuxer can make of the  *)
(* configurations of a stream                                              *)
(***************************************************************************)
MaxInitCalls == 2

\* FLVDemuxer._mpegSamplingRates, the table an AudioSpecificConfig indexes
MpegSamplingRates ==
    <<96000, 88200, 64000, 48000, 44100, 32000, 24000, 22050, 16000, 12000, 11025, 8000, 7350>>

\* the durations of onMetaData in milliseconds and the sizes of an SPS
InitDurations == {0, 10000, 3600000}
InitSizes == { [width |-> 640, height |-> 360], [width |-> 1920, height |-> 1080] }

\* AAC metadata of every rate of the table, mono and stereo, MP3 metadata,
\* and video metadata whose coded height is padded to a multiple of 16
InitMetadataChoices ==
    { [AudioMetadata([AacMisc EXCEPT !.samplingRate = MpegSamplingRates[i],
                                     !.channelCount = channelCount], 1024)
          EXCEPT !.duration = duration] :
        i \in DOMAIN MpegSamplingRates, channelCount \in {1, 2}, duration \in InitDurations }
    \cup { AudioMetadata(Mp3Misc, 1152) }
    \cup { [ type |-> "video", id |-> 1, timescale |-> 1000, duration |-> duration,
             codec |-> SpsConfig.codec, originalCodec |-> "", hasConfig |-> TRUE,
             audioSampleRate |-> 0, channelCount |-> 0,
             refSampleDuration |-> [num |-> 1000 * 1000, den |-> 25000],
             codecWidth |-> size.width, codecHeight |-> 16 * CeilDiv(size.height, 16),
             presentWidth |-> size.width, presentHeight |-> size.height ] :
           duration \in InitDurations, size \in InitSizes }

InitTrackMetadata ==
    /\ muxhist.calls < MaxInitCalls
    /\ \E metadata \in InitMetadataChoices :
          MuxCommit(OnTrackMetadataReceived(MuxWorld, metadata.type, metadata), "metadata")

InitSegmentNext == InitTrackMetadata

SpecInitSegment == RemuxInit /\ [][InitSegmentNext]_vars

(***************************************************************************)
(* A demuxer that receives onMetaData with a keyframes index, and the      *)
(* lookups of the seek logic in its MediaInfo                              *)
(***************************************************************************)
MaxKeyframeCalls == 3

\* the keyframes object of onMetaData: times in seconds and file positions,
\* the first entry being the AVC sequence header
KeyframeTimes ==
    { <<[num |-> 0, den |-> 1], [num |-> 0, den |-> 1], [num |-> 2, den |-> 1],
        [num |-> 4, den |-> 1], [num |-> 6, den |-> 1]>>,
      <<[num |-> 0, den |-> 1], [num |-> 1, den |-> 2], [num |-> 3, den |-> 2],
        [num |-> 2001, den |-> 1000], [num |-> 5, den |-> 2]>> }

KeyframeTables ==
    { [ times |-> SubSeq(times, 1, n),
        filepositions |-> SubSeq(<<9, 50, 50000, 100000, 150000>>, 1, n) ] :
        times \in KeyframeTimes, n \in 1..5 }

\* the milliseconds the seek logic asks for
QueryMilliseconds == {-1, 0, 499, 500, 1999, 2000, 2001, 3000, 6000, 7000}

\* a script tag whose onMetaData carries the keyframes object
KeyframesTag(keyframes) ==
    [Tag("script", 0, 0) EXCEPT
        !.onMetaData = Some([OnMetaDataObject EXCEPT !.keyframes = Some(keyframes)])]

ScriptData ==
    /\ muxhist.calls < MaxKeyframeCalls
    /\ \E keyframes \in KeyframeTables :
          MuxCommit(ParseScriptData([MuxWorld EXCEPT !.h.call = Null, !.h.ret = Null],
                                    KeyframesTag(keyframes)),
                    "parseScriptData")

NearestKeyframe ==
    /\ muxhist.calls < MaxKeyframeCalls
    /\ \E milliseconds \in QueryMilliseconds :
          MuxCommit([MuxWorld EXCEPT
                       !.h.call = Some([milliseconds |-> milliseconds]),
                       !.h.ret = GetNearestKeyframe(demuxer.mediaInfo, milliseconds)],
                    "getNearestKeyframe")

KeyframesNext ==
    \/ ScriptData
    \/ NearestKeyframe

SpecKeyframes == DemuxInit /\ [][KeyframesNext]_vars

(***************************************************************************)
(* FLVDemuxer.probe on the first bytes of a source                         *)
(***************************************************************************)
\* the first four bytes: the FLV signature with version 1, a later version,
\* and two other signatures
Signatures == { <<70, 76, 86, 1>>, <<70, 76, 86, 2>>, <<70, 76, 88, 1>>, <<0, 76, 86, 1>> }

\* the flags byte: audio and video, nothing
FlagBytes == {5, 0}

\* the four bytes of the header size
HeaderSizes ==
    { <<0, 0, 0, 9>>, <<0, 0, 0, 8>>, <<0, 0, 0, 13>>, <<0, 0, 9, 0>>, <<0, 9, 0, 0>>,
      <<9, 0, 0, 0>>, <<128, 0, 0, 9>>, <<255, 255, 255, 255>> }

\* buffers of up to MaxProbeLen bytes: the first bytes of a signature, a
\* flags byte, a header size and PreviousTagSize0
MaxProbeLen == 12

ProbeBuffers ==
    { SubSeq(sig \o <<flags>> \o size \o <<0, 0, 0, 0>>, 1, n) :
        sig \in Signatures, flags \in FlagBytes, size \in HeaderSizes, n \in 0..MaxProbeLen }

ProbeInit ==
    /\ IOIdle
    /\ MuxIdle
    /\ IDRIdle
    /\ PlayerIdle
    /\ \E buffer \in ProbeBuffers : probed = [buffer |-> buffer, result |-> Null]

\* the first bytes of the source are handed to FLVDemuxer.probe
ProbeBuffer ==
    /\ probed.result = Null
    /\ probed' = [probed EXCEPT !.result = Some(Probe(probed.buffer))]
    /\ UNCHANGED <<iovars, muxvars, idrvars, playervars>>

ProbeNext == ProbeBuffer

SpecProbe == ProbeInit /\ [][ProbeNext]_vars

(***************************************************************************)
(* An IDRSampleList that receives batches of sync points and is queried    *)
(***************************************************************************)
MaxIDRCalls == 3

\* originalDts of the sync points and the dts asked for
SyncOriginalDts == {0, 40, 80, 120}
QueryDts == {-20, -10, 0, 30, 50, 70, 130}

\* a sync point of a stream whose dts are corrected by 10 ms
SyncPoint(originalDts) ==
    [SampleInfo(originalDts - 10, originalDts - 10, 40, originalDts, TRUE)
        EXCEPT !.fileposition = Some(originalDts * 100)]

\* batches of up to two sync points in the order of their originalDts
SyncBatches ==
    { <<>> }
    \cup { <<SyncPoint(a)>> : a \in SyncOriginalDts }
    \cup { <<SyncPoint(p[1]), SyncPoint(p[2])>> :
             p \in {q \in SyncOriginalDts \X SyncOriginalDts : q[1] <= q[2]} }

IDRInit ==
    /\ IOIdle
    /\ MuxIdle
    /\ ProbeIdle
    /\ IDRIdle
    /\ PlayerIdle

IDRCommit(isl, h) ==
    /\ idrSampleList' = isl
    /\ idrhist' = [h EXCEPT !.calls = idrhist.calls + 1]
    /\ UNCHANGED <<iovars, muxvars, probevars, playervars>>

AppendArray ==
    /\ idrhist.calls < MaxIDRCalls
    /\ \E syncPoints \in SyncBatches :
          IDRCommit(IDRAppendArray(idrSampleList, syncPoints),
                    [IDRHistNew EXCEPT !.op = "appendArray", !.prev = idrSampleList.list,
                                       !.batch = syncPoints])

ClearList ==
    /\ idrhist.calls < MaxIDRCalls
    /\ IDRCommit(IDRClear(idrSampleList),
                 [IDRHistNew EXCEPT !.op = "clear", !.prev = idrSampleList.list])

LastSyncPointBeforeDts ==
    /\ idrhist.calls < MaxIDRCalls
    /\ \E dts \in QueryDts :
          IDRCommit(idrSampleList,
                    [IDRHistNew EXCEPT !.op = "getLastSyncPointBeforeDts",
                                       !.prev = idrSampleList.list, !.dts = dts,
                                       !.result = GetLastSyncPointBeforeDts(idrSampleList, dts)])

IDRNext ==
    \/ AppendArray
    \/ ClearList
    \/ LastSyncPointBeforeDts

SpecIDR == IDRInit /\ [][IDRNext]_vars

(***************************************************************************)
(* Properties of the IOController                                          *)
(***************************************************************************)
DispatchEvents == {i \in 1..Len(ioEvents) : ioEvents[i].ev = "dispatch"}
HasEvent(kind) == \E i \in 1..Len(ioEvents) : ioEvents[i].ev = kind
\* the bytes of the stash
StashContent == Slice(ioctl.stashBuffer, ioctl.stashUsed)
\* the bytes received from the loader that the consumer has not absorbed
Unabsorbed == RunsDrop(iohist.received, RunsLen(iohist.absorbed))

\* C5: the bytes the consumer has absorbed are, in order and without gap or
\* repetition, a prefix of the bytes received from the loader, and every
\* buffer dispatched starts at the first byte not yet absorbed
C5_AbsorbedPrefix ==
    /\ iohist.absorbed = RunsTake(iohist.received, RunsLen(iohist.absorbed))
    /\ \A i \in DispatchEvents : ioEvents[i].aligned

\* a second dispatch that follows a partial consumption and is itself
\* consumed in part
C5_Witness ==
    /\ iohist.lastOp \in {"arrival", "error"}
    /\ \E i \in DispatchEvents :
          /\ ioEvents[i].aligned
          /\ iohist.received /= <<>>
          /\ ioEvents[i].data[1].off > iohist.received[1].off
          /\ ioEvents[i].consumed > 0
          /\ ioEvents[i].consumed < RunsLen(ioEvents[i].data)

\* C6: in every dispatch byteStart is the absolute source offset of the
\* first byte of the buffer, and whenever the stash is non-empty
\* stashByteStart is the absolute source offset of stash byte 0
C6_ByteStartIsOffset ==
    /\ \A i \in DispatchEvents : ioEvents[i].data[1].off = ioEvents[i].byteStart
    /\ ioctl.stashUsed > 0 => StashContent[1].off = ioctl.stashByteStart

\* C7: an EarlyEof reconnect reopens the loader at the offset that follows
\* the last byte received, keeps the unconsumed stash bytes and calls no
\* onError
C7_ReconnectAtNextByte ==
    (iohist.lastOp = "error" /\ HasEvent("reconnect")) =>
        /\ loader.from = iohist.prePos
        /\ ~HasEvent("error")
        /\ StashContent = Unabsorbed

\* C8: onRecoveredEarlyEof is invoked exactly once per reconnect, on the
\* first chunk arrival after it and before the chunk is stashed or
\* dispatched, and not again until another reconnect has started
C8_RecoveredOnce ==
    /\ iohist.reconnects = iohist.recovered + iohist.failedReconnects
                           + (IF ioctl.isEarlyEofReconnecting THEN 1 ELSE 0)
    /\ (iohist.lastOp = "arrival" /\ iohist.wasReconnecting) =>
          /\ Len(ioEvents) >= 1
          /\ ioEvents[1].ev = "recovered"
          /\ ioEvents[1].stashUsed = iohist.preStashUsed
          /\ \A i \in 2..Len(ioEvents) : ioEvents[i].ev /= "recovered"
    /\ HasEvent("recovered") => (iohist.lastOp = "arrival" /\ iohist.wasReconnecting)
    /\ iohist.lastOp = "arrival" => ~ioctl.isEarlyEofReconnecting

\* the chunk that follows a reconnect has arrived and has been dispatched
C8_Witness ==
    /\ iohist.lastOp = "arrival"
    /\ iohist.wasReconnecting
    /\ iohist.recovered = 1
    /\ DispatchEvents /= {}

\* C9: a loader error of any type that arrives while a reconnect is pending
\* is reported as UnrecoverableEarlyEof, clears the flag and starts no
\* further reconnect
C9_ReconnectFailure ==
    (iohist.lastOp = "error" /\ iohist.wasReconnecting) =>
        /\ \E i \in 1..Len(ioEvents) :
              /\ ioEvents[i].ev = "error"
              /\ ioEvents[i].type = UNRECOVERABLE_EARLY_EOF
              /\ \A j \in 1..Len(ioEvents) : ioEvents[j].ev = "error" => j = i
        /\ ~ioctl.isEarlyEofReconnecting
        /\ ~HasEvent("reconnect")
        /\ ~HasEvent("open")
        /\ ~LoaderIsWorking(loader)

\* a second EarlyEof arrives while the reconnect for the first is pending
C9_Witness ==
    /\ iohist.lastOp = "error"
    /\ iohist.wasReconnecting
    /\ iohist.lastErrorType = EARLY_EOF

\* C10: every loader error either starts a reconnect or is reported to the
\* consumer's onError
C10_ErrorHasOutcome ==
    iohist.lastOp = "error" => (HasEvent("reconnect") \/ HasEvent("error"))

\* C11: pause() on a working controller aborts the loader, sets the paused
\* flag, empties the stash, and records as resume offset stashByteStart when
\* the stash was non-empty (its bytes are fetched again), else
\* currentRange.to + 1
C11_PauseRecordsStashStart ==
    iohist.lastOp = "pause" =>
        /\ ~LoaderIsWorking(loader)
        /\ ioctl.paused
        /\ ioctl.stashUsed = 0
        /\ ioctl.resumeFrom = IF iohist.preStashUsed /= 0 THEN iohist.preStashByteStart
                               ELSE iohist.preRange.to + 1

\* pause() has run on a controller whose stash held bytes
C11_Witness ==
    /\ iohist.lastOp = "pause"
    /\ iohist.preStashUsed > 0
    /\ ioctl.paused
    /\ ioctl.resumeFrom = iohist.preStashByteStart

\* the resume offset as stashByteStart + stashUsed for a non-empty stash
C11_PauseRecordsStashEnd ==
    iohist.lastOp = "pause" =>
        /\ ~LoaderIsWorking(loader)
        /\ ioctl.paused
        /\ ioctl.stashUsed = 0
        /\ ioctl.resumeFrom = IF iohist.preStashUsed /= 0
                               THEN iohist.preStashByteStart + iohist.preStashUsed
                               ELSE iohist.preRange.to + 1

\* C12: across a pause() followed by resume() the loader is reopened at the
\* recorded resume offset, and that offset is the absolute offset of the
\* first byte the consumer has not absorbed, also when pause() comes right
\* after open(from) or seek(bytes), before any chunk of the new range
C12_ResumeAtFirstUnabsorbed ==
    /\ iohist.lastOp = "pause" => ioctl.resumeFrom = iohist.preNext
    /\ iohist.lastOp = "resume" =>
          /\ LoaderIsWorking(loader)
          /\ \E i \in 1..Len(ioEvents) : ioEvents[i].ev = "open" /\ ioEvents[i].from = loader.from
          /\ loader.from = iohist.preNext

\* what seek(bytes) does besides the stash: the paused flag is cleared, a
\* new loader is opened at range {from: bytes, to: -1}, onSeeked is invoked
\* after it and the stash is empty
SeekReopens ==
    /\ ~ioctl.paused
    /\ LoaderIsWorking(loader)
    /\ loader.pos = loader.from
    /\ ioctl.currentRange = [from |-> loader.from, to |-> -1]
    /\ Len(ioEvents) >= 2
    /\ ioEvents[Len(ioEvents) - 1] = [ev |-> "open", from |-> loader.from]
    /\ ioEvents[Len(ioEvents)] = [ev |-> "seeked"]
    /\ ioctl.stashUsed = 0

\* C13: seek(bytes) clears the paused flag, discards the stash without
\* dispatching it to the consumer, then opens a new loader at range
\* {from: bytes, to: -1} and invokes onSeeked; when it returns the stash is
\* empty
C13_SeekDiscardsStash ==
    iohist.lastOp = "seek" => (SeekReopens /\ DispatchEvents = {})

\* seek(bytes) has run on a controller whose stash held bytes
C13_Witness ==
    /\ iohist.lastOp = "seek"
    /\ iohist.preStashUsed > 0
    /\ HasEvent("seeked")
    /\ ioctl.stashUsed = 0

\* seek(bytes) dispatching what remains in the stash to the consumer once
C13_SeekDispatchesStash ==
    iohist.lastOp = "seek" =>
        /\ SeekReopens
        /\ iohist.preStashUsed > 0 =>
              /\ Cardinality(DispatchEvents) = 1
              /\ \A i \in DispatchEvents :
                    /\ RunsLen(ioEvents[i].data) = iohist.preStashUsed
                    /\ ioEvents[i].byteStart = iohist.preStashByteStart
        /\ iohist.preStashUsed = 0 => DispatchEvents = {}

(***************************************************************************)
(* Properties of the remuxer and of the demuxer                            *)
(***************************************************************************)
MediaEvents == {i \in 1..Len(muxEvents) : muxEvents[i].ev = "media"}

\* C1: no media segment of a track type is delivered to onMediaSegment
\* before an init segment of that type has been delivered to onInitSegment
C1_InitBeforeMedia ==
    \A i \in MediaEvents : muxEvents[i].initBefore

\* a remux call has delivered media segments of both types, after the init
\* segments that track metadata arrivals delivered
C1_Witness ==
    /\ muxhist.lastOp = "remux"
    /\ \E i \in MediaEvents : muxEvents[i].type = "audio" /\ muxEvents[i].initBefore
    /\ \E i \in MediaEvents : muxEvents[i].type = "video" /\ muxEvents[i].initBefore

\* C2: the mfhd sequence numbers of the successive media segments of a track
\* are strictly increasing over the whole session
C2_SequenceIncreasing ==
    \A i \in MediaEvents :
       (muxEvents[i].moof /= Null /\ muxEvents[i].prevSeq /= Null)
           => muxEvents[i].moof[1] > muxEvents[i].prevSeq[1]

\* C3: onMediaInfo is invoked before the first media segment of any track
C3_MediaInfoBeforeMedia ==
    \A i \in MediaEvents : muxEvents[i].mediaInfoBefore

\* C4: within one session the demuxer invokes onMediaInfo at most once
C4_MediaInfoOnce ==
    muxhist.mediaInfoCount <= 1

\* the call of parseChunks that ran last
LastCall == muxhist.call[1]
Threw == \E i \in 1..Len(muxEvents) : muxEvents[i].ev = "exception"

\* C14: for every chunk parseChunks returns a consumed count that is at most
\* the chunk length and lies at the start of the first tag whose header,
\* body and PreviousTagSize are not all inside the chunk (0 when that start
\* is beyond the chunk); that tag is not parsed and every whole tag before
\* it is processed exactly once, in order
C14_ConsumedAtFirstIncompleteTag ==
    muxhist.lastOp = "parseChunks" =>
        /\ ~Threw
        /\ muxhist.ret /= Null
        /\ muxhist.ret[1] <= LastCall.byteLength
        /\ muxhist.ret[1] = IF LastCall.next <= LastCall.byteLength THEN LastCall.next ELSE 0
        /\ muxhist.processed = [i \in 1..LastCall.whole |-> i]

\* C15: parseChunks called with a one-byte chunk returns 0 consumed and
\* raises no exception, in every demuxer state and for every byteStart
C15_OneByteChunk ==
    (muxhist.lastOp = "parseChunks" /\ LastCall.byteLength = 1) =>
        /\ ~Threw
        /\ muxhist.ret = Some(0)

\* the big-endian unsigned number in bytes 5..8 of a buffer of at least 9
\* bytes is at least 9
HeaderSizeAtLeast9(buffer) ==
    buffer[6] > 0 \/ buffer[7] > 0 \/ buffer[8] > 0 \/ buffer[9] >= 9

\* C16: probe returns match = false for every buffer shorter than 9 bytes,
\* and match = true only when the signature is 'F','L','V', the version is
\* 1 and the big-endian header size in bytes 5..8 is at least 9
C16_ProbeMatch ==
    probed.result /= Null =>
        /\ Len(probed.buffer) < 9 => ~probed.result[1].match
        /\ probed.result[1].match =>
              /\ Len(probed.buffer) >= 9
              /\ SubSeq(probed.buffer, 1, 4) = <<70, 76, 86, 1>>
              /\ HeaderSizeAtLeast9(probed.buffer)

\* C17: when a track's nextDts is defined the correction of the next batch
\* is firstSampleOriginalDts - nextDts, so the first sample of the segment
\* has the dts at which the previous segment ended, for every value of
\* nextDts, 0 included
C17_ContinuesAtNextDts ==
    \A i \in MediaEvents :
       muxEvents[i].batch.nextDts /= Null =>
           muxEvents[i].segment.samples[1].dts = muxEvents[i].batch.nextDts[1]

\* the samples of the segment of a media event, and whether silent frames
\* were inserted among them
SamplesOf(i) == muxEvents[i].segment.samples
HasSilentFrames(i) ==
    /\ muxEvents[i].type = "audio"
    /\ \E k \in 1..Len(SamplesOf(i)) : SamplesOf(i)[k].silent

\* the dts that the sample stashed by the batch of a media event will have
StashedDts(i) ==
    muxEvents[i].batch.stashed[1].dts - muxEvents[i].batch.dtsBase
    - (SamplesOf(i)[1].originalDts - SamplesOf(i)[1].dts)

\* C18: in every emitted media segment without inserted silent frames each
\* sample's dts + duration is the next sample's dts, and the duration of
\* the last sample is the stashed next sample's dts minus its own dts when
\* a sample was stashed, else the duration of the sample before it, else
\* floor(refSampleDuration)
C18_DurationsContiguous ==
    \A i \in MediaEvents :
       ~HasSilentFrames(i) =>
           /\ \A k \in 1..(Len(SamplesOf(i)) - 1) :
                 SamplesOf(i)[k].dts + SamplesOf(i)[k].duration = SamplesOf(i)[k + 1].dts
           /\ SamplesOf(i)[Len(SamplesOf(i))].duration =
                 IF muxEvents[i].batch.stashed /= Null
                 THEN StashedDts(i) - SamplesOf(i)[Len(SamplesOf(i))].dts
                 ELSE IF Len(SamplesOf(i)) >= 2
                 THEN SamplesOf(i)[Len(SamplesOf(i)) - 1].duration
                 ELSE FloorDiv(muxEvents[i].batch.ref.num, muxEvents[i].batch.ref.den)

\* a segment of two samples without silent frames was emitted while a
\* sample was stashed
C18_Witness ==
    \E i \in MediaEvents :
       /\ ~HasSilentFrames(i)
       /\ Len(SamplesOf(i)) = 2
       /\ muxEvents[i].batch.stashed /= Null
       /\ SamplesOf(i)[2].duration > 0

\* the number of silent frames that directly follow sample k
RECURSIVE SilentRun(_, _)
SilentRun(samples, k) ==
    IF k < Len(samples) /\ samples[k + 1].silent THEN 1 + SilentRun(samples, k + 1) ELSE 0

\* the computed duration of the sample k of the segment of a media event,
\* a sample of the batch: up to the next sample of the batch, else up to
\* the stashed sample, else the duration of the sample before or
\* floor(refSampleDuration)
ComputedDuration(i, k) ==
    IF k + SilentRun(SamplesOf(i), k) < Len(SamplesOf(i))
    THEN SamplesOf(i)[k + SilentRun(SamplesOf(i), k) + 1].dts - SamplesOf(i)[k].dts
    ELSE IF muxEvents[i].batch.stashed /= Null
    THEN StashedDts(i) - SamplesOf(i)[k].dts
    ELSE IF k > 1
    THEN SamplesOf(i)[k - 1].duration
    ELSE FloorDiv(muxEvents[i].batch.ref.num, muxEvents[i].batch.ref.den)

\* the media events of an AAC track with the gap workaround at work and an
\* integer refSampleDuration
GapFilledEvents ==
    { i \in MediaEvents :
        /\ muxEvents[i].type = "audio"
        /\ muxEvents[i].batch.codec /= "mp3"
        /\ remuxer.fillAudioTimestampGap
        /\ ~remuxer.safari
        /\ muxEvents[i].batch.ref.num % muxEvents[i].batch.ref.den = 0 }

RefOf(i) == muxEvents[i].batch.ref.num \div muxEvents[i].batch.ref.den

\* the samples of the batch in the segment whose computed duration exceeds
\* 1.5 x refSampleDuration
LongSamples(i) ==
    { k \in 1..Len(SamplesOf(i)) :
        /\ ~SamplesOf(i)[k].silent
        /\ 2 * ComputedDuration(i, k) > 3 * RefOf(i) }

\* C19: for an AAC track with the gap workaround and an integer
\* refSampleDuration r, a sample whose computed duration D exceeds 1.5 x r
\* is followed directly by exactly ceil((D - r) / r) silent frames, its own
\* duration becomes r, every inserted frame has a positive duration, the
\* inserted frames are contiguous and the last one ends at the sample's
\* dts + D
C19_SilentFramesFillGap ==
    \A i \in GapFilledEvents :
       \A k \in LongSamples(i) :
          /\ SilentRun(SamplesOf(i), k) = CeilDiv(ComputedDuration(i, k) - RefOf(i), RefOf(i))
          /\ SamplesOf(i)[k].duration = RefOf(i)
          /\ \A j \in (k + 1)..(k + SilentRun(SamplesOf(i), k)) :
                /\ SamplesOf(i)[j].duration > 0
                /\ j < k + SilentRun(SamplesOf(i), k) =>
                      SamplesOf(i)[j].dts + SamplesOf(i)[j].duration = SamplesOf(i)[j + 1].dts
                /\ j = k + SilentRun(SamplesOf(i), k) =>
                      SamplesOf(i)[j].dts + SamplesOf(i)[j].duration
                      = SamplesOf(i)[k].dts + ComputedDuration(i, k)

\* a gap of more than two frames was filled after a sample of a 32 kHz AAC
\* track
C19_Witness ==
    \E i \in GapFilledEvents :
       \E k \in LongSamples(i) :
          /\ SilentRun(SamplesOf(i), k) >= 2
          /\ SamplesOf(i)[k].duration = 32

\* the track of a type
TrackOf(type) == IF type = "audio" THEN audioTrack ELSE videoTrack

\* C20: a call of _remuxAudio or _remuxVideo with an empty batch, or with
\* exactly one sample and force not set, emits no segment and leaves the
\* batch, the stashed sample, nextDts, the segment-info list and the
\* track's sequence number unchanged
C20_SmallBatchNoEffect ==
    \A t \in TrackTypes :
       (muxhist.lastOp = "remux" /\ muxhist.pre[t] /= Null) =>
           /\ \A i \in MediaEvents : muxEvents[i].type /= t
           /\ TrackOf(t).samples = muxhist.pre[t][1].track.samples
           /\ TrackOf(t).sequenceNumber = muxhist.pre[t][1].track.sequenceNumber
           /\ Held(remuxer, t) = muxhist.pre[t][1].held

\* remux was called with one audio sample of a track whose metadata is
\* known, while the video batch made a segment
C20_Witness ==
    /\ muxhist.lastOp = "remux"
    /\ muxhist.pre["audio"] /= Null
    /\ Len(muxhist.pre["audio"][1].track.samples) = 1
    /\ remuxer.audioMeta /= Null
    /\ \E i \in MediaEvents : muxEvents[i].type = "video"


(***************************************************************************)
(* flushStashedSamples                                                     *)
(***************************************************************************)
\* the segment event ev of the type is made of the stashed sample alone
IsFlushedSegment(ev, type, stashed, dtsBase) ==
    /\ ev.ev = "media"
    /\ ev.type = type
    /\ ev.segment.sampleCount = 1
    /\ Len(ev.segment.samples) = 1
    /\ ev.segment.samples[1].originalDts = stashed[1].dts - dtsBase
    /\ ev.segment.samples[1].size = stashed[1].length

\* the stashed samples a call of flushStashedSamples finds, video first
StashedOf(r) ==
    (IF r.videoStashedLastSample /= Null
     THEN <<[type |-> "video", sample |-> r.videoStashedLastSample]>> ELSE <<>>)
    \o (IF r.audioStashedLastSample /= Null
        THEN <<[type |-> "audio", sample |-> r.audioStashedLastSample]>> ELSE <<>>)

\* what a step of flushStashedSamples does
FlushStep ==
    LET stashed == StashedOf(remuxer)
    IN /\ Len(muxEvents') = Len(stashed)
       /\ \A i \in 1..Len(stashed) :
             IsFlushedSegment(muxEvents'[i], stashed[i].type, stashed[i].sample,
                              remuxer.dtsBase)
       /\ remuxer'.videoStashedLastSample = Null
       /\ remuxer'.audioStashedLastSample = Null
       /\ (muxhist.lastOp = "flush" => muxEvents' = <<>>)

\* C21: flushStashedSamples delivers the stashed last sample of each track
\* as a media segment of that one sample, the video segment before the audio
\* segment, and leaves both stash slots empty; a second call right after it
\* delivers nothing
C21_FlushEmitsStashed ==
    [][muxhist'.lastOp = "flush" => FlushStep]_vars

\* a call has delivered a video segment and an audio segment
C21_Witness ==
    /\ muxhist.lastOp = "flush"
    /\ Len(muxEvents) = 2
    /\ remuxer.videoStashedLastSample = Null
    /\ remuxer.audioStashedLastSample = Null

\* a call right after a call has delivered nothing
C21_WitnessSecondCall ==
    /\ muxhist.lastOp = "flush"
    /\ muxEvents = <<>>
    /\ muxhist.segments["video"] > 0
    /\ muxhist.segments["audio"] > 0


(***************************************************************************)
(* MediaSegmentInfoList and IDRSampleList                                  *)
(***************************************************************************)
\* the segments of a list are in non-decreasing order of originalBeginDts
SortedByOriginalBeginDts(sil) ==
    \A i \in 1..(Len(sil.list) - 1) :
       sil.list[i].originalBeginDts <= sil.list[i + 1].originalBeginDts

\* C22: after every sequence of calls of MediaSegmentInfoList.append, by the
\* cached location as by the binary search, the list is in non-decreasing
\* order of originalBeginDts
C22_ListSorted ==
    /\ SortedByOriginalBeginDts(remuxer.audioSegmentInfoList)
    /\ SortedByOriginalBeginDts(remuxer.videoSegmentInfoList)


\* the entries of a list are in non-decreasing order of originalDts
SortedByOriginalDts(list) ==
    \A i \in 1..(Len(list) - 1) : list[i].originalDts <= list[i + 1].originalDts

\* the list ends with the entries of the batch
EndsWith(list, batch) ==
    /\ Len(list) >= Len(batch)
    /\ SubSeq(list, Len(list) - Len(batch) + 1, Len(list)) = batch

\* C23: after appendArray with a non-empty batch whose first entry has a
\* lower originalDts than the tail of the list, the list holds exactly the
\* entries of the batch; in every other case the batch follows the entries
\* the list had; the list is in the order of originalDts and ends with the
\* last batch appended
C23_AppendArrayResets ==
    /\ SortedByOriginalDts(idrSampleList.list)
    /\ idrhist.op = "appendArray" =>
          LET prev == idrhist.prev
              batch == idrhist.batch
          IN /\ IF /\ batch /= <<>>
                   /\ prev /= <<>>
                   /\ batch[1].originalDts < prev[Len(prev)].originalDts
                THEN idrSampleList.list = batch
                ELSE idrSampleList.list = prev \o batch
             /\ batch /= <<>> => EndsWith(idrSampleList.list, batch)


\* C24: getLastSyncPointBeforeDts(dts) returns the sync point with the
\* largest dts below the dts asked for, and its result does not decrease
\* when the dts asked for grows, for every dts and every list
C24_LastSyncPointBefore ==
    /\ idrhist.op = "getLastSyncPointBeforeDts" =>
          LET list == idrSampleList.list
              before == {i \in 1..Len(list) : list[i].dts < idrhist.dts}
          IN before /= {} =>
                /\ idrhist.result /= Null
                /\ idrhist.result[1].dts < idrhist.dts
                /\ \A i \in before : list[i].dts <= idrhist.result[1].dts
    /\ \A d1, d2 \in QueryDts :
          LET r1 == GetLastSyncPointBeforeDts(idrSampleList, d1)
              r2 == GetLastSyncPointBeforeDts(idrSampleList, d2)
          IN d1 <= d2 /\ r1 /= Null => r2 /= Null /\ r1[1].dts <= r2[1].dts


(***************************************************************************)
(* MediaInfo.getNearestKeyframe                                            *)
(***************************************************************************)
\* the times of the list grow from entry to entry
Increasing(list) == \A i \in 1..(Len(list) - 1) : list[i] < list[i + 1]

\* the 0-based index of the last entry of the list that is not above the
\* value, 0 when the value is below every entry
LastNotAbove(list, value) ==
    LET notAbove == {i \in 1..Len(list) : list[i] <= value}
    IN IF notAbove = {} THEN 0 ELSE (CHOOSE i \in notAbove : \A j \in notAbove : j <= i) - 1

\* C25: on a keyframes index whose times are in increasing order,
\* getNearestKeyframe(ms) returns the largest index i with times[i] <= ms,
\* index 0 when ms is below every entry, with times[i] and the file
\* position stored at i
C25_NearestKeyframe ==
    (/\ muxhist.lastOp = "getNearestKeyframe"
     /\ demuxer.mediaInfo.keyframesIndex /= Null
     /\ Increasing(demuxer.mediaInfo.keyframesIndex[1].times)) =>
        LET table == demuxer.mediaInfo.keyframesIndex[1]
            i == LastNotAbove(table.times, muxhist.call[1].milliseconds)
        IN /\ muxhist.ret /= Null
           /\ muxhist.ret[1].index = i
           /\ muxhist.ret[1].milliseconds = ElemAt(table.times, i)
           /\ muxhist.ret[1].fileposition = ElemAt(table.filepositions, i)

\* a lookup between two entries of an index of three entries or more has
\* returned an entry after the first
C25_Witness ==
    /\ muxhist.lastOp = "getNearestKeyframe"
    /\ demuxer.mediaInfo.keyframesIndex /= Null
    /\ Len(demuxer.mediaInfo.keyframesIndex[1].times) >= 3
    /\ Increasing(demuxer.mediaInfo.keyframesIndex[1].times)
    /\ muxhist.ret /= Null
    /\ muxhist.ret[1].index = 1
    /\ muxhist.ret[1].milliseconds /= Null
    /\ muxhist.ret[1].milliseconds[1] < muxhist.call[1].milliseconds


(***************************************************************************)
(* MP4.moof                                                                *)
(***************************************************************************)
\* the media segment events that carry a moof box
MoofEvents ==
    {i \in 1..Len(muxEvents) : muxEvents[i].ev = "media" /\ muxEvents[i].segment.moofBox /= Null}

\* C26: the data_offset of the trun of every moof is the distance from the
\* first byte of the moof to the first payload byte of the mdat box that
\* _mergeBoxes puts after it, the size of the moof plus 8, whatever the
\* number of samples
C26_DataOffsetAtMdatPayload ==
    \A i \in MoofEvents :
       LET segment == muxEvents[i].segment
           moof == segment.moofBox[1]
           merged == MergeBoxes(moof.byteLength, segment.mdatBytes)
       IN /\ moof.trun.sampleCount = Len(segment.samples)
          /\ moof.trun.dataOffset = merged.mdatAt + segment.mdatOffset
          /\ moof.trun.dataOffset = moof.byteLength + 8

\* a call has delivered a segment whose moof describes three samples or more
C26_Witness ==
    \E i \in MoofEvents :
       /\ Len(muxEvents[i].segment.samples) >= 3
       /\ muxEvents[i].segment.moofBox[1].trun.sampleCount >= 3


(***************************************************************************)
(* MP4.generateInitSegment                                                 *)
(***************************************************************************)
\* the number a reader of the file makes of the bytes of a field
RECURSIVE BigEndian(_)
BigEndian(bytes) ==
    IF bytes = <<>> THEN 0 ELSE BigEndian(SubSeq(bytes, 1, Len(bytes) - 1)) * 256 + bytes[Len(bytes)]

\* the integer part of a 16.16 number
Fixed1616(bytes) == BigEndian(SubSeq(bytes, 1, 2))

\* the init segments delivered by the last call that hold boxes
InitEvents ==
    {i \in 1..Len(muxEvents) : muxEvents[i].ev = "init" /\ muxEvents[i].segment.data /= Null}

\* the metadata the remuxer keeps for a track type
MetaOf(type) == IF type = "audio" THEN remuxer.audioMeta[1] ELSE remuxer.videoMeta[1]

\* C27: the fields that generateInitSegment writes read back as the values
\* of the metadata: duration in mvhd, tkhd and mdhd, width and height in
\* tkhd and avc1, channel count and sample rate in mp4a, for every sample
\* rate of the demuxer's table, 64000, 88200 and 96000 Hz included
C27_InitSegmentRoundTrip ==
    \A i \in InitEvents :
       LET meta == MetaOf(muxEvents[i].type)
           data == muxEvents[i].segment.data[1]
       IN /\ BigEndian(data.mvhd.duration) = meta.duration
          /\ BigEndian(data.tkhd.duration) = meta.duration
          /\ BigEndian(data.mdhd.duration) = meta.duration
          /\ meta.type = "video" =>
                /\ Fixed1616(data.tkhd.width) = meta.presentWidth
                /\ Fixed1616(data.tkhd.height) = meta.presentHeight
                /\ BigEndian(data.avc1[1].width) = meta.codecWidth
                /\ BigEndian(data.avc1[1].height) = meta.codecHeight
          /\ meta.type = "audio" =>
                /\ BigEndian(data.mp4a[1].channelCount) = meta.channelCount
                /\ Fixed1616(data.mp4a[1].sampleRate) = meta.audioSampleRate

(***************************************************************************)
(* Properties of the sizing of the stash                                   *)
(***************************************************************************)
\* the values of the speed ladder
LadderValues == {speedNormalizeList[i] : i \in 1..Len(speedNormalizeList)}

\* v is the greatest ladder value not above speed
GreatestNotAbove(v, speed) ==
    /\ v \in LadderValues
    /\ v <= speed
    /\ \A u \in LadderValues : u <= speed => u <= v

\* the last handler was an arrival with a non-zero speed reading
SpeedArrived == iohist.lastOp = "arrival" /\ iohist.KBps /= 0

\* the last handler was an arrival that changed the normalized speed, so
\* that it called _adjustStashSize
StashAdjusted == SpeedArrived /\ iohist.preSpeedNormalized /= ioctl.speedNormalized

\* the stash sizes in KiB that "normalized up to 512, floor(1.5 x
\* normalized) for 512 to 1024, 2 x normalized above, at most 8192" allows;
\* at 512 either reading of the boundary is accepted
StashSizesKBUpTo512(isLive, n) ==
    LET kbs == IF isLive THEN {n}
               ELSE (IF n <= 512 THEN {n} ELSE {})
                    \cup (IF n >= 512 /\ n <= 1024 THEN {(n * 3) \div 2} ELSE {})
                    \cup (IF n > 1024 THEN {n * 2} ELSE {})
    IN {IF kb > 8192 THEN 8192 ELSE kb : kb \in kbs}

\* the stash size in KiB for a normalized speed: the value itself in live
\* mode and below 512, floor(1.5 x value) from 512 to 1024, twice the value
\* above, at most 8192
LadderStashSizeKB(isLive, n) ==
    LET kb == CASE isLive -> n
                [] ~isLive /\ n < 512 -> n
                [] ~isLive /\ n >= 512 /\ n <= 1024 -> (n * 3) \div 2
                [] OTHER -> n * 2
    IN IF kb > 8192 THEN 8192 ELSE kb

\* C28: after an arrival with a non-zero speed reading the normalized speed
\* is the greatest ladder value not above the reading, and when the stash
\* size was adjusted it is, in KiB, the normalized value in live mode, else
\* the normalized value up to 512, floor(1.5 x normalized) for 512 to 1024
\* and 2 x normalized above, never more than 8192
C28_NearestLowerLadder ==
    /\ SpeedArrived => GreatestNotAbove(ioctl.speedNormalized, iohist.KBps)
    /\ StashAdjusted =>
          \E kb \in StashSizesKBUpTo512(ioctl.isLive, ioctl.speedNormalized) :
             ioctl.stashSize = kb * 1024

\* C28 (amended): after an arrival with a non-zero speed reading the
\* normalized speed is the lowest ladder value 64 for a reading below 64 and
\* the greatest ladder value not above the reading otherwise; when the
\* stash size was adjusted it is, in KiB, the normalized value in live mode
\* and for values below 512, floor(1.5 x normalized) for 512 to 1024 and
\* 2 x normalized above, never more than 8192
C28_SpeedLadder ==
    /\ SpeedArrived =>
          IF iohist.KBps < 64 THEN ioctl.speedNormalized = 64
          ELSE GreatestNotAbove(ioctl.speedNormalized, iohist.KBps)
    /\ StashAdjusted =>
          ioctl.stashSize = LadderStashSizeKB(ioctl.isLive, ioctl.speedNormalized) * 1024

\* an arrival whose reading lies below the ladder adjusted the stash to 64 KiB
C28_Witness ==
    /\ StashAdjusted
    /\ iohist.KBps < 64
    /\ ioctl.speedNormalized = 64
    /\ ioctl.stashSize = 64 * 1024

\* an arrival in a session that is not live adjusted the stash to 1.5 times a
\* normalized speed of 512 KiB/s
C28_WitnessMiddle ==
    /\ StashAdjusted
    /\ ~ioctl.isLive
    /\ ioctl.speedNormalized = 512
    /\ ioctl.stashSize = 768 * 1024

\* C29: after every arrival with a non-zero speed reading the stash size is
\* the size chosen for the current normalized speed, also on the arrivals
\* that follow a seek, a resume or an EarlyEof reconnect, which reset the
\* stash size to its initial value
C29_StashSizeFollowsSpeed ==
    SpeedArrived => ioctl.stashSize = StashSizeKB(ioctl.isLive, ioctl.speedNormalized) * 1024

\* the capacity of the stash buffer holds the stash size and 1 MiB of
\* slack, and the bytes in use fit into it
CapacityCoversStash ==
    /\ ioctl.bufferSize >= ioctl.stashSize + MiB
    /\ ioctl.stashUsed <= ioctl.bufferSize

\* no handler makes the capacity of the stash buffer smaller
CapacityGrows == ioctl'.bufferSize >= ioctl.bufferSize

\* C30: from construction on the capacity of the stash buffer never
\* decreases, is always at least stashSize + 1 MiB, and stashUsed never
\* exceeds it, for every configured stashInitialSize and every sequence of
\* arrivals and speed changes
C30_CapacityCoversStash == []CapacityCoversStash /\ [][CapacityGrows]_vars

(***************************************************************************)
(* Properties of the hand-over from the demuxer to the remuxer             *)
(***************************************************************************)
\* the consumer had the metadata of every track the demuxer declared when
\* onDataAvailable call c was made, and a sample was queued
MetadataDelivered(c) ==
    /\ c.hasAudio => c.audioDelivered
    /\ c.hasVideo => c.videoDelivered
    /\ c.hasAudio \/ c.hasVideo
    /\ c.queued > 0

\* C31: the demuxer calls onDataAvailable only when onTrackMetadata has been
\* delivered for every track it declares present and a track queue is not
\* empty; a parseChunks that makes no such call emits no media segment, its
\* samples stay queued
C31_DataAfterMetadata ==
    /\ \A i \in 1..Len(muxhist.dataCalls) : MetadataDelivered(muxhist.dataCalls[i])
    /\ muxhist.dataCalls = <<>> /\ muxhist.lastOp = "parseChunks" =>
          \A i \in 1..Len(muxEvents) : muxEvents[i].ev /= "media"

\* onDataAvailable was called for a stream that declares both tracks
C31_Witness ==
    /\ muxhist.dataCalls /= <<>>
    /\ muxhist.dataCalls[1].hasAudio
    /\ muxhist.dataCalls[1].hasVideo

\* samples of a track wait in the queue while the metadata of the other
\* declared track is missing
C31_WitnessQueued ==
    /\ muxhist.lastOp = "parseChunks"
    /\ muxhist.dataCalls = <<>>
    /\ demuxer.audioInitialMetadataDispatched /= demuxer.videoInitialMetadataDispatched
    /\ Len(audioTrack.samples) + Len(videoTrack.samples) > 0

(***************************************************************************)
(* Properties of the timestamps of the remuxer                             *)
(***************************************************************************)
\* the least of the first dts of the tracks handed to the last remux call
MinFirstDts ==
    LET a == muxhist.firstDts["audio"]
        v == muxhist.firstDts["video"]
    IN IF a = Null THEN v[1] ELSE IF v = Null THEN a[1] ELSE Min(a[1], v[1])

\* the samples of media event i that come from a sample of the producer
ProducerSamples(i) ==
    IF muxEvents[i].type = "video"
    THEN {k \in 1..Len(SamplesOf(i)) : TRUE}
    ELSE {k \in 1..Len(SamplesOf(i)) : ~SamplesOf(i)[k].silent}

\* a step fixes dtsBase with the first remux call, keeps it afterwards and
\* emits samples whose originalDts is the producer's dts minus dtsBase
DtsBaseStep ==
    /\ remuxer.dtsBaseInited =>
          remuxer'.dtsBaseInited /\ remuxer'.dtsBase = remuxer.dtsBase
    /\ ~remuxer.dtsBaseInited /\ remuxer'.dtsBaseInited =>
          muxhist'.lastOp = "remux" /\ remuxer'.dtsBase = MinFirstDts'
    /\ ~remuxer.dtsBaseInited /\ muxhist'.lastOp = "remux" => remuxer'.dtsBaseInited
    /\ \A i \in MediaEvents' : \A k \in ProducerSamples(i)' :
          SamplesOf(i)'[k].originalDts = SamplesOf(i)'[k].rawDts - remuxer'.dtsBase

\* C32: the first remux call fixes dtsBase to the least of the first audio
\* and the first video sample dts of that call, no later remux, seek,
\* insertDiscontinuity or flushStashedSamples changes it, and the
\* originalDts of every emitted sample is its dts from the demuxer minus
\* dtsBase
C32_DtsBaseFixed == [][DtsBaseStep]_vars

\* a later remux call emitted samples of both tracks while dtsBase is still
\* the first dts of the first call
C32_Witness ==
    /\ muxhist.lastOp = "remux"
    /\ remuxer.dtsBaseInited
    /\ remuxer.dtsBase = 100
    /\ IsEmpty(remuxer.audioSegmentInfoList) = FALSE
    /\ \E i \in MediaEvents : muxEvents[i].type = "audio" /\ SamplesOf(i)[1].rawDts > 230
    /\ \E i \in MediaEvents : muxEvents[i].type = "video"

\* the segment-info list and nextDts the remuxer holds for a track type
ListOf(r, type) == Held(r, type).list.list
NextDtsOf(r, type) == Held(r, type).nextDts

\* the last segment in list order that begins at or before t, if any
LastSegmentAtOrBefore(list, t) ==
    LET at == {j \in 1..Len(list) : list[j].originalBeginDts <= t}
    IN IF at = {} THEN Null
       ELSE Some(list[CHOOSE j \in at : \A k \in at : k <= j])

\* the correction that continues the last sample before t of the list
ContinuedCorrection(list, t) ==
    LET segment == LastSegmentAtOrBefore(list, t)
    IN IF segment = Null THEN 0
       ELSE LET ls == segment[1].lastSample
                d0 == t - (ls.originalDts + ls.duration)
                distance == IF d0 <= 3 THEN 0 ELSE d0
            IN t - (ls.dts + ls.duration + distance)

\* the segments a step emits for a track whose nextDts was undefined carry
\* the correction that continues the list the track had before the step
CorrectionStep ==
    \A i \in MediaEvents' :
       LET type == muxEvents'[i].type
           first == SamplesOf(i)'[1]
       IN NextDtsOf(remuxer, type) = Null =>
             first.originalDts - first.dts =
                IF ListOf(remuxer, type) = <<>> THEN 0
                ELSE ContinuedCorrection(ListOf(remuxer, type), first.originalDts)

\* C33: for a track whose nextDts is undefined and whose segment-info list
\* is not empty the correction is firstSampleOriginalDts - (lastSample.dts +
\* lastSample.duration + distance) with lastSample the last sample of the
\* last segment before firstSampleOriginalDts and distance =
\* firstSampleOriginalDts - (lastSample.originalDts + lastSample.duration),
\* replaced by 0 when it is at most 3; the correction is 0 when the list is
\* empty or holds no such sample
C33_CorrectionContinuesLastSample == [][CorrectionStep]_vars

\* the dts the producer gave to the first audio sample that a step remuxes:
\* the stashed sample if there is one, else the first sample of the track
AudioBeginRaw ==
    IF remuxer.audioStashedLastSample /= Null
    THEN remuxer.audioStashedLastSample[1].dts
    ELSE muxhist'.firstDts["audio"][1]

\* the audio segment a step emits as the first one after a seek begins with
\* one silent frame that starts with the video segment found for it and
\* lasts until the first audio sample
SilentPrefixStep ==
    \A i \in MediaEvents' :
       LET audioBegin == AudioBeginRaw - remuxer'.dtsBase
           videoSegment == LastSegmentAtOrBefore(remuxer'.videoSegmentInfoList.list, audioBegin)
           samples == SamplesOf(i)'
       IN /\ muxEvents'[i].type = "audio"
          /\ remuxer.dtsBaseInited
          /\ remuxer.fillSilentAfterSeek
          /\ remuxer'.audioMeta[1].originalCodec /= "mp3"
          /\ remuxer.audioNextDts = Null
          /\ remuxer.audioSegmentInfoList.list = <<>>
          /\ videoSegment /= Null
          /\ videoSegment[1].beginDts < audioBegin
          => /\ Len(samples) >= 2
             /\ samples[1].dts = videoSegment[1].beginDts
             /\ samples[1].duration = audioBegin - videoSegment[1].beginDts
             /\ samples[2].dts = audioBegin
             /\ samples[2].rawDts = AudioBeginRaw

\* C34: with the fill-silent-after-seek workaround on and an AAC track, when
\* the first audio segment after a seek would begin later than the video
\* segment found for it, exactly one silent frame is prepended whose emitted
\* dts is videoSegment.beginDts and whose duration is the audio begin dts
\* minus the video begin dts, for every value of dtsBase
C34_SilentPrefixAtVideoBegin == [][SilentPrefixStep]_vars

(***************************************************************************)
(* Properties of the mdat box of the media segments                        *)
(***************************************************************************)
\* the sum of the sample sizes that the trun of a segment lists
RECURSIVE TrunSizes(_)
TrunSizes(mp4Samples) ==
    IF mp4Samples = <<>> THEN 0 ELSE Head(mp4Samples).size + TrunSizes(Tail(mp4Samples))

\* C35: the size in the mdat header of every fMP4 media segment is 8 plus
\* the bytes of the samples copied into the box, the sum of the sample sizes
\* of the trun, whether the batch popped its last sample for the stash, put
\* a stashed sample first, was forced by flushStashedSamples or got silent
\* frames
C35_MdatSize ==
    \A i \in MoofEvents :
       muxEvents[i].segment.mdatBytes = 8 + TrunSizes(muxEvents[i].segment.samples)

\* flushStashedSamples has forced a segment of the one sample that an
\* earlier batch of the type had popped for the stash
C35_Witness ==
    /\ muxhist.lastOp = "flush"
    /\ \E i \in MoofEvents :
          /\ muxEvents[i].batch.nextDts /= Null
          /\ muxEvents[i].batch.stashed = Null
          /\ Len(SamplesOf(i)) = 1
          /\ SamplesOf(i)[1].size > 0

\* a remux call has emitted a segment that continues the segment before it
\* and whose batch popped its last sample for the stash
C35_WitnessStash ==
    /\ muxhist.lastOp = "remux"
    /\ \E i \in MoofEvents :
          /\ muxEvents[i].batch.nextDts /= Null
          /\ muxEvents[i].batch.stashed /= Null
          /\ Len(SamplesOf(i)) >= 2

\* an audio segment with silent frames among its samples has been emitted
C35_WitnessSilent ==
    \E i \in MoofEvents :
       /\ muxEvents[i].type = "audio"
       /\ \E k \in 1..Len(muxEvents[i].segment.samples) :
             muxEvents[i].segment.samples[k].silent

(***************************************************************************)
(* A player whose media element plays while segments arrive                *)
(***************************************************************************)
MaxIntervals == 3
MaxMediaTime == 4

\* the end of the segments that the transmuxer delivers, in milliseconds
EndDtsValues == {1000 * k : k \in 1..MaxMediaTime}

\* the world a handler of the player starts in
PlayerWorld ==
    [ p |-> player, b |-> browser, h |-> [playerhist EXCEPT !.thrown = Null] ]

\* the state a handler of the player leaves
PlayerCommit(w, op) ==
    /\ player' = w.p
    /\ browser' = w.b
    /\ playerhist' = [w.h EXCEPT !.lastOp = op]
    /\ UNCHANGED <<iovars, muxvars, probevars, idrvars>>

PlayerInit ==
    /\ IOIdle
    /\ MuxIdle
    /\ ProbeIdle
    /\ idrSampleList = IDRSampleListNew
    /\ idrhist = IDRHistNew
    /\ \E config \in PlayerConfigs : player = FlvPlayerNew(config)
    /\ browser = BrowserNew
    /\ playerhist = PlayerHistNew

PlayerAttach ==
    /\ player.emitter
    /\ ~player.mediaElement
    /\ PlayerCommit(AttachMediaElement(PlayerWorld), "attachMediaElement")

PlayerDetach ==
    /\ player.emitter
    /\ player.mediaElement
    /\ PlayerCommit(DetachMediaElement(PlayerWorld), "detachMediaElement")

\* the media source of the attached element opens
SourceOpen ==
    /\ player.msectl
    /\ ~browser.sourceOpen
    /\ PlayerCommit(OnSourceOpen(PlayerWorld), "sourceOpen")

Load ==
    /\ player.emitter
    /\ PlayerCommit(PlayerLoad(PlayerWorld), "load")

Unload ==
    /\ player.emitter
    /\ PlayerCommit(PlayerUnload(PlayerWorld), "unload")

Destroy ==
    /\ player.emitter
    /\ PlayerCommit(PlayerDestroy(PlayerWorld), "destroy")

\* the running transmuxer delivers a media segment
TransmuxerMediaSegment ==
    /\ player.transmuxer /= Null
    /\ ~player.transmuxer[1].paused
    /\ browser.nextId <= MaxIntervals
    /\ \E endDts \in EndDtsValues :
          PlayerCommit(OnTransmuxerMediaSegment(PlayerWorld, endDts), "mediaSegment")

\* the source buffer has taken a segment in
MseUpdateEnd ==
    /\ player.msectl
    /\ browser.bufferedEnd > 0
    /\ browser.nextId <= MaxIntervals
    /\ PlayerCommit(OnMseUpdateEnd(PlayerWorld), "updateEnd")

MseBufferFull ==
    /\ player.msectl
    /\ browser.bufferedEnd > 0
    /\ browser.nextId <= MaxIntervals
    /\ PlayerCommit(OnMseBufferFull(PlayerWorld), "bufferFull")

\* an armed interval timer of the window fires
TimerTick ==
    /\ browser.intervals /= {}
    /\ PlayerCommit(CheckProgressAndResume(PlayerWorld), "timer")

\* the media element plays one second of what is buffered
TimeUpdate ==
    /\ player.mediaElement
    /\ browser.currentTime + 1 <= browser.bufferedEnd
    /\ PlayerCommit([PlayerWorld EXCEPT !.b.currentTime = @ + 1], "timeupdate")

PlayerNext ==
    \/ PlayerAttach
    \/ PlayerDetach
    \/ SourceOpen
    \/ Load
    \/ Unload
    \/ Destroy
    \/ TransmuxerMediaSegment
    \/ MseUpdateEnd
    \/ MseBufferFull
    \/ TimerTick
    \/ TimeUpdate

SpecPlayer == PlayerInit /\ [][PlayerNext]_vars

(***************************************************************************)
(* Properties of the player's probe timer                                  *)
(***************************************************************************)
\* the interval timer that the player holds in _progressChecker is armed
ProbeArmed ==
    /\ player.progressChecker /= Null
    /\ player.progressChecker[1] \in browser.intervals

\* C36: when the player tears down its transmuxer, by unload() or by
\* destroy(), the probe timer is cancelled: whenever the probe timer is
\* armed a transmuxer exists, and no timer tick calls resume on a
\* transmuxer that no longer exists
C36_ProbeTimerHasTransmuxer ==
    /\ ProbeArmed => player.transmuxer /= Null
    /\ playerhist.thrown /= Some("TypeError: resume of null")

(***************************************************************************)
(* A stream that is parsed chunk by chunk and flushed at its end           *)
(***************************************************************************)
\* the IOController hands the next chunk of a stream that has not ended
StreamParseChunk ==
    /\ muxhist.lastOp /= "flush"
    /\ ParseChunk

\* the stream ends after a call of parseChunks: the stashed samples are flushed
StreamEnd ==
    /\ muxhist.lastOp = "parseChunks"
    /\ \A i \in 1..Len(muxEvents) : muxEvents[i].ev /= "exception"
    /\ MuxCommit(FlushStashedSamples(MuxWorld), "flush")

DemuxFlushNext ==
    \/ StreamParseChunk
    \/ StreamEnd

SpecDemuxFlush == DemuxInit /\ [][DemuxFlushNext]_vars

(***************************************************************************)
(* Properties of the way of the samples through the remuxer                *)
(***************************************************************************)
\* the dts of the samples of a queue
RECURSIVE DtsOf(_)
DtsOf(samples) ==
    IF samples = <<>> THEN <<>> ELSE <<Head(samples).dts>> \o DtsOf(Tail(samples))

\* the dts of a stashed sample, if there is one
StashDts(stashed) == IF stashed = Null THEN <<>> ELSE <<stashed[1].dts>>

\* the dts that the demuxer gave to the samples of the segments of a type
\* among the events, silent frames left out
RECURSIVE EmittedDts(_, _)
EmittedDts(events, type) ==
    IF events = <<>>
    THEN <<>>
    ELSE LET e == Head(events)
             real == IF e.ev = "media" /\ e.type = type
                     THEN IF type = "audio"
                          THEN SelectSeq(e.segment.samples, LAMBDA s : ~s.silent)
                          ELSE e.segment.samples
                     ELSE <<>>
         IN [k \in 1..Len(real) |-> real[k].rawDts] \o EmittedDts(Tail(events), type)

\* every call hands the samples on in their order: those stashed and queued
\* before the call and those the demuxer pushed during it are the ones
\* the call emitted, then the stashed one, then those still in the queue; and
\* after the flush at the end of the stream nothing is stashed or queued
SamplesStep ==
    /\ \A type \in TrackTypes :
          LET track == IF type = "audio" THEN audioTrack ELSE videoTrack
              trackAfter == IF type = "audio" THEN audioTrack' ELSE videoTrack'
          IN StashDts(Held(remuxer, type).stashed) \o DtsOf(track.samples)
                \o muxhist'.pushed[type]
             = EmittedDts(muxEvents', type) \o StashDts(Held(remuxer', type).stashed)
                \o DtsOf(trackAfter.samples)
    /\ muxhist'.lastOp = "flush" =>
          /\ audioTrack'.samples = <<>>
          /\ videoTrack'.samples = <<>>
          /\ remuxer'.audioStashedLastSample = Null
          /\ remuxer'.videoStashedLastSample = Null

\* C37: with track metadata present and no seek, once the last parseChunks
\* call has returned and flushStashedSamples has run, every audio and video
\* sample the demuxer queued has been emitted in exactly one media segment,
\* in queue order, and no sample stays behind in the demuxer's queue or in
\* the remuxer's stash
C37_EverySampleEmitted ==
    [][(remuxer'.audioMeta /= Null /\ remuxer'.videoMeta /= Null) => SamplesStep]_vars

(***************************************************************************)
(* A demuxer that parses the bodies of AVC video tags                      *)
(***************************************************************************)
MaxNaluCalls == 2

\* the sizes that the length fields declare and the bytes that follow them
DeclaredSizes == {1, 2, 7}
ActualSizes == {1, 2}

\* a length field of lengthSize bytes that declares n, the NALU header of
\* the type and the rest of the actual bytes
NaluBytes(lengthSize, n, type, actual) ==
    (IF lengthSize = 3 THEN <<0, 0, n>> ELSE <<0, 0, 0, n>>)
    \o <<type>> \o [k \in 1..(actual - 1) |-> 0]

\* what a length field and its bytes can be: the field declares the bytes
\* that follow it or more than those
NaluShapes ==
    { sh \in [declared : DeclaredSizes, actual : ActualSizes, type : {65, 101}] :
        sh.declared >= sh.actual }

\* the tag bodies of one or two NALUs
NaluBodies(lengthSize) ==
    { NaluBytes(lengthSize, a.declared, a.type, a.actual) : a \in NaluShapes }
    \cup { NaluBytes(lengthSize, a.declared, a.type, a.actual)
           \o NaluBytes(lengthSize, b.declared, b.type, b.actual) :
             a \in {sh \in NaluShapes : sh.declared = sh.actual}, b \in NaluShapes }

\* the demuxer after an AVCDecoderConfigurationRecord with a NALU length
\* size of 3 or of 4
NaluInit ==
    /\ IOIdle
    /\ ProbeIdle
    /\ idrSampleList = IDRSampleListNew
    /\ idrhist = IDRHistNew
    /\ PlayerIdle
    /\ remuxer = MP4RemuxerNew(DefaultEnv)
    /\ audioTrack = TrackNew
    /\ videoTrack = TrackNew
    /\ \E lengthSize \in {3, 4} :
          demuxer = [FLVDemuxerNew(ProbeData(TRUE, TRUE)) EXCEPT !.naluLengthSize = lengthSize]
    /\ muxhist = MuxHistNew
    /\ muxEvents = <<>>

\* the body of the next AVC NALU tag is parsed
ParseVideoBody ==
    /\ muxhist.calls < MaxNaluCalls
    /\ \E data \in NaluBodies(demuxer.naluLengthSize), frameType \in {1, 2} :
          MuxCommit(ParseAVCVideoData([MuxWorld EXCEPT !.h.clock = @ + TagStep], data,
                                      muxhist.clock, 100 * muxhist.clock, frameType, 0),
                    "parseAVCVideoData")

NaluNext == ParseVideoBody

SpecNalu == NaluInit /\ [][NaluNext]_vars

(***************************************************************************)
(* Properties of the NALUs of the video samples                            *)
(***************************************************************************)
\* C38: every NALU record the demuxer puts into a video sample covers only
\* bytes inside the body of the tag being parsed, offset + lengthSize +
\* naluSize <= dataSize, wherever the NALU is in the tag and for
\* naluLengthSize 3 and 4: a NALU whose declared size runs past the tag body
\* is never queued
C38_NaluInsideTagBody ==
    \A k \in 1..Len(muxhist.nalus) :
       muxhist.nalus[k].byteOffset + muxhist.nalus[k].byteLength <= muxhist.nalus[k].dataSize

(***************************************************************************)
(* A demuxer that parses AVCDecoderConfigurationRecords                    *)
(***************************************************************************)
MaxAvccCalls == 3

\* the records: a version and a profile that are accepted or not, a NALU
\* length size of 1, 3 or 4, with or without an SPS and a PPS
AvccRecords ==
    [ version : {0, 1}, avcProfile : {0, 66}, lengthSizeMinusOne : {252, 254, 255},
      spsCount : {0, 1}, ppsCount : {0, 1}, sps : {SpsConfig} ]

AvccInit == DemuxInit

\* the body of the next AVC sequence header tag is parsed
ParseConfigurationRecord ==
    /\ muxhist.calls < MaxAvccCalls
    /\ \E rec \in AvccRecords :
          MuxCommit(ParseAVCDecoderConfigurationRecord(MuxWorld, rec, 40),
                    "parseAVCDecoderConfigurationRecord")

AvccNext == ParseConfigurationRecord

SpecAvcc == AvccInit /\ [][AvccNext]_vars

(***************************************************************************)
(* Properties of the rejection of a configuration record                   *)
(***************************************************************************)
\* the call has reported a FORMAT_ERROR
FormatErrorReported ==
    \E i \in 1..Len(muxEvents) :
       muxEvents[i].ev = "demuxError" /\ muxEvents[i].type = "FormatError"

\* a record that is rejected leaves the state that later tags are parsed
\* with as it was, and no track metadata is delivered for it
RejectedRecordStep ==
    (muxhist'.lastOp = "parseAVCDecoderConfigurationRecord" /\ FormatErrorReported') =>
       /\ demuxer'.naluLengthSize = demuxer.naluLengthSize
       /\ demuxer'.videoMetadata = demuxer.videoMetadata
       /\ demuxer'.hasVideo = demuxer.hasVideo
       /\ demuxer'.audioInitialMetadataDispatched = demuxer.audioInitialMetadataDispatched
       /\ demuxer'.videoInitialMetadataDispatched = demuxer.videoInitialMetadataDispatched
       /\ demuxer'.mediaInfo = demuxer.mediaInfo
       /\ remuxer'.videoMeta = remuxer.videoMeta
       /\ \A i \in 1..Len(muxEvents') : muxEvents'[i].ev /= "init"

\* C39: when _parseAVCDecoderConfigurationRecord rejects a record with
\* FORMAT_ERROR (bad version or profile, NALU length size other than 3 or
\* 4, no SPS, no PPS), the demuxer state used for later tags (naluLengthSize,
\* video metadata, hasVideo, the dispatched flags and mediaInfo) is the same
\* as before the record, and no onTrackMetadata is delivered for it
C39_RejectedRecordLeavesState == [][RejectedRecordStep]_vars

(***************************************************************************)
(* A MediaSegmentInfoList that takes segments in and is searched           *)
(***************************************************************************)
MaxSegmentCalls == 4

\* originalDts at which the segments begin and end, and the values asked for
SegmentDts == {0, 20, 40, 60, 80, 100}
SegmentQueries == {-10, 0, 10, 20, 30, 40, 50, 60, 70, 90, 130}

\* the MediaSegmentInfo of samples 20 ms apart whose first has the
\* originalDts b and whose last has the originalDts e, with dts corrected by 5
SegmentBetween(b, e) ==
    [ beginDts |-> b - 5, endDts |-> e + 15, beginPts |-> b - 5, endPts |-> e + 15,
      originalBeginDts |-> b, originalEndDts |-> e + 20, syncPoints |-> <<>>,
      firstSample |-> SampleInfo(b - 5, b - 5, 20, b, FALSE),
      lastSample |-> SampleInfo(e - 5, e - 5, 20, e, FALSE) ]

\* the segments that can follow those of the list in a stream
NextSegments(list) ==
    LET after == IF list = <<>> THEN -1 ELSE list[Len(list)].lastSample.originalDts
        spans == {be \in SegmentDts \X SegmentDts : after < be[1] /\ be[1] <= be[2]}
    IN {SegmentBetween(be[1], be[2]) : be \in spans}

SegmentsInit == RemuxInit

\* a segment that follows the segments of the list is appended
AppendSegment ==
    /\ muxhist.calls < MaxSegmentCalls - 1
    /\ \E msi \in NextSegments(remuxer.videoSegmentInfoList.list) :
          MuxCommit([MuxWorld EXCEPT !.r.videoSegmentInfoList = SegmentInfoAppend(@, msi)],
                    "append")

\* the list is asked for the last segment before a value
LastSegmentBefore ==
    /\ muxhist.calls < MaxSegmentCalls
    /\ \E t \in SegmentQueries :
          MuxCommit([MuxWorld EXCEPT
                       !.h.call = Some(t),
                       !.h.ret = Some(GetLastSegmentBefore(remuxer.videoSegmentInfoList, t))],
                    "getLastSegmentBefore")

SegmentsNext ==
    \/ AppendSegment
    \/ LastSegmentBefore

SpecSegments == SegmentsInit /\ [][SegmentsNext]_vars

(***************************************************************************)
(* Properties of the search of a MediaSegmentInfoList                      *)
(***************************************************************************)
\* the list is sorted: every segment begins after the last sample of the
\* one before it
SortedSegments(list) ==
    \A k \in 1..(Len(list) - 1) :
       /\ list[k].originalBeginDts <= list[k].lastSample.originalDts
       /\ list[k].lastSample.originalDts < list[k + 1].originalBeginDts

\* the places of the segments that begin at t or before it
BeginningUpTo(list, t) == {k \in 1..Len(list) : list[k].originalBeginDts <= t}

\* C40: for every sorted MediaSegmentInfoList and every query t,
\* getLastSegmentBefore(t) returns null when no segment has
\* originalBeginDts <= t, and otherwise the last segment in list order whose
\* originalBeginDts is at most t; it never returns a segment that begins
\* after t
C40_LastSegmentAtOrBefore ==
    (muxhist.lastOp = "getLastSegmentBefore"
     /\ SortedSegments(remuxer.videoSegmentInfoList.list)) =>
       LET list == remuxer.videoSegmentInfoList.list
           t == muxhist.call[1]
           found == muxhist.ret[1]
           upTo == BeginningUpTo(list, t)
       IN IF upTo = {}
          THEN found = Null
          ELSE /\ found /= Null
               /\ found[1] = list[CHOOSE k \in upTo : \A j \in upTo : j <= k]
               /\ found[1].originalBeginDts <= t

====
